---- MODULE Spec2Model ----
(***************************************************************************)
(* Smart Terminal Assistant (src/AI_Terminal_Assistant/main.py): the       *)
(* planner, the safety checker and the coordinator, as a state machine.    *)
(*                                                                         *)
(* Strings.  A Python str is a sequence of symbols.  Text that the code    *)
(* inspects character by character (commands, collaborator replies, user   *)
(* answers) is spelled one character per symbol, so that lower(), upper(), *)
(* strip(), split() and the `in` substring test are computed as Python     *)
(* computes them.  A fixed literal that the code only concatenates or      *)
(* compares as a whole is a single symbol; the pictographs that open the   *)
(* printed messages are left out of those literals.                        *)
(***************************************************************************)
EXTENDS Integers, Sequences, FiniteSets, TLC

VARIABLES
    api_key,          \* os.getenv("OPENAI_API_KEY") of the process
    main_report,      \* main: what its except clauses printed about start-up
    loop,             \* interactive_mode: where its while loop stands
    loop_input,       \* interactive_mode: what the last input("You: ") produced
    loop_report,      \* interactive_mode: what its loop printed last (Goodbye, Error)
    pc,               \* where the caller stands (see Next)
    user_input,       \* process_request: the user_input argument
    interactive,      \* process_request: the interactive argument
    plan_outcome,     \* plan_command: outcome of the collaborator call
    planned_command,  \* process_request: planned_command
    command,          \* check_safety: the command argument of the last call
    analysis,         \* check_safety: outcome of the collaborator call, while in scope
    llm_calls,        \* number of classification calls made by the last check_safety
    safety_status,    \* process_request / caller: returned verdict
    safety_message,   \* process_request / caller: returned explanation
    prompts,          \* _get_user_confirmation: prompts shown for this request
    confirmation_input, \* _get_user_confirmation: what the last input() produced
    user_approval,    \* process_request: user_approval ("unasked" until assigned)
    executed,         \* whether _execute_command was invoked for this request
    run_result,       \* _execute_command: what subprocess.run produced
    final_output,     \* _execute_command: final_output, before the enhancement
    execution_output, \* process_request: execution_output
    result,           \* the CommandAnalysis returned by the last process_request
    shown_command,    \* _get_user_confirmation: the command argument
    run_command,      \* _execute_command: the command argument
    \* Personal Task Prioritizer (src/task_prioritizer/main.py)
    tasks,            \* TaskPrioritizerCoordinator.tasks
    menu,             \* run: where the menu loop stands
    menu_input,       \* run and its handlers: what the input() calls of the last pass produced
    use_fallback,     \* PrioritizationAgent.use_fallback
    current_time,     \* collect_context: current_time of the last call, while in scope
    context,          \* _prioritize_tasks: context, while in scope
    llm_response,     \* prioritize_tasks: outcome of _call_llm, while in scope
    prioritized,      \* _prioritize_tasks: prioritized, while in scope
    urgency_call,         \* _calculate_urgency: arguments and result of the last call
    urgency_call_before,  \* _calculate_urgency: arguments and result of the call before it
    \* Query Analyzer (src/query_analyzer/main.py)
    qa_pc,            \* QueryAnalyzerSystem.run: where a session stands
    user_query,       \* run: user_query
    question_count,   \* run: question_count
    analysis_complete, \* run: analysis_complete
    refined_query,    \* QueryAnalyzerAgent.refined_query of agent1
    qa_response,      \* run: response of the last analyze_query call
    user_answer,      \* run: what the last input() of phase 1 produced
    analyzer_calls,   \* calls of agent1.analyze_query in this session
    generator_calls   \* calls of agent2.generate_response in this session

\* the state of the Smart Terminal Assistant
assistant_vars ==
        <<api_key, main_report, loop, loop_input, loop_report, pc, user_input,
          interactive, plan_outcome, planned_command, command, analysis,
          llm_calls, safety_status, safety_message, prompts, confirmation_input,
          user_approval, executed, run_result, final_output, execution_output, result,
          shown_command, run_command>>

\* the state of the Personal Task Prioritizer
prioritizer_vars ==
    <<tasks, menu, menu_input, use_fallback, current_time, context, llm_response,
      prioritized>>

\* two successive calls of _calculate_urgency
urgency_vars == <<urgency_call, urgency_call_before>>

\* the state of the Query Analyzer
analyzer_vars ==
    <<qa_pc, user_query, question_count, analysis_complete, refined_query,
      qa_response, user_answer, analyzer_calls, generator_calls>>

vars == <<assistant_vars, prioritizer_vars, urgency_vars, analyzer_vars>>

\* the state of main and of interactive_mode around a request
session_vars == <<main_report, loop, loop_input, loop_report>>

\* what a request leaves behind of its collaborators' outcomes
outcome_vars == <<plan_outcome, run_result, final_output>>

(***************************************************************************)
(* Bounds of the model.                                                    *)
(***************************************************************************)
\* a collaborator reply is a concatenation of at most this many ReplyPieces
MaxReplyPieces == 3
\* a command handed to check_safety carries at most this much blank padding
MaxPad == 1
\* a planner reply is a concatenation of at most this many FencePieces
MaxFencePieces == 3
\* unrecognised answers the user gives to one confirmation prompt loop
MaxReprompts == 1

\* what process_request passed on to the confirmation prompt and the executor
argument_vars == <<shown_command, run_command>>

(***************************************************************************)
(* Python str methods.                                                     *)
(***************************************************************************)
UpperLetters ==
    <<"A","B","C","D","E","F","G","H","I","J","K","L","M",
      "N","O","P","Q","R","S","T","U","V","W","X","Y","Z">>

LowerLetters ==
    <<"a","b","c","d","e","f","g","h","i","j","k","l","m",
      "n","o","p","q","r","s","t","u","v","w","x","y","z">>

Whitespace == {" ", "\n", "\t", "\r"}

\* the grave accent, which a TLA+ string cannot hold
Backtick == "grave accent"

\* the letters that lower() and upper() change, and what they become
ToLower ==
    [c \in {UpperLetters[i] : i \in 1..26} |->
        LowerLetters[CHOOSE i \in 1..26 : UpperLetters[i] = c]]

ToUpper ==
    [c \in {LowerLetters[i] : i \in 1..26} |->
        UpperLetters[CHOOSE i \in 1..26 : LowerLetters[i] = c]]

\* c.lower() for one character
LowerChar(c) == IF c \in DOMAIN ToLower THEN ToLower[c] ELSE c

\* c.upper() for one character
UpperChar(c) == IF c \in DOMAIN ToUpper THEN ToUpper[c] ELSE c

\* s.lower()
lower(s) == [i \in 1..Len(s) |-> LowerChar(s[i])]

\* s.upper()
upper(s) == [i \in 1..Len(s) |-> UpperChar(s[i])]

\* s.strip()
strip(s) ==
    LET keep == {i \in 1..Len(s) : s[i] \notin Whitespace}
    IN  IF keep = {} THEN <<>>
        ELSE LET lo == CHOOSE i \in keep : \A j \in keep : i <= j
                 hi == CHOOSE i \in keep : \A j \in keep : i >= j
             IN  SubSeq(s, lo, hi)

\* p in s
In(p, s) ==
    \E i \in 1..(Len(s) - Len(p) + 1) : SubSeq(s, i, i + Len(p) - 1) = p

\* s.split('\n', 1): one line, or the first line and the rest
SplitFirstLine(s) ==
    LET nl == {i \in 1..Len(s) : s[i] = "\n"}
    IN  IF nl = {} THEN <<s>>
        ELSE LET k == CHOOSE i \in nl : \A j \in nl : i <= j
             IN  <<SubSeq(s, 1, k - 1), SubSeq(s, k + 1, Len(s))>>

\* s.startswith(p)
StartsWith(s, p) == Len(s) >= Len(p) /\ SubSeq(s, 1, Len(p)) = p

\* s.replace(old, "") : every non-overlapping occurrence, left to right
RECURSIVE Remove(_, _)
Remove(s, old) ==
    IF Len(s) < Len(old) THEN s
    ELSE IF StartsWith(s, old)
         THEN Remove(SubSeq(s, Len(old) + 1, Len(s)), old)
         ELSE <<s[1]>> \o Remove(Tail(s), old)

(***************************************************************************)
(* SafetyStatus                                                            *)
(***************************************************************************)
SAFE == "safe"
UNSAFE == "unsafe"
UNKNOWN == "unknown"
SafetyStatus == {SAFE, UNSAFE, UNKNOWN}

(***************************************************************************)
(* SafetyChecker                                                           *)
(***************************************************************************)
DANGEROUS_PATTERNS == <<
    <<"r","m"," ","-","r","f">>,
    <<"r","m"," ","-","f","r">>,
    <<"r","m"," ","-","r">>,
    <<"s","h","r","e","d">>,
    <<"r","m","d","i","r"," ","/","s">>,
    <<"d","e","l"," ","/","s">>,
    <<"d","e","l"," ","/","f">>,
    <<"r","d"," ","/","s">>,
    <<"r","e","m","o","v","e","-","i","t","e","m"," ","-","r","e","c","u","r","s","e">>,
    <<"f","o","r","m","a","t">>,
    <<"m","k","f","s">>,
    <<"d","d"," ","i","f","=">>,
    <<"f","d","i","s","k">>,
    <<"p","a","r","t","e","d">>,
    <<"d","i","s","k","p","a","r","t">>,
    <<"s","h","u","t","d","o","w","n">>,
    <<"r","e","b","o","o","t">>,
    <<"i","n","i","t"," ","0">>,
    <<"i","n","i","t"," ","6">>,
    <<"p","o","w","e","r","o","f","f">>,
    <<"h","a","l","t">>,
    <<"s","y","s","t","e","m","c","t","l"," ","s","t","o","p">>,
    <<"s","y","s","t","e","m","c","t","l"," ","d","i","s","a","b","l","e">>,
    <<"s","h","u","t","d","o","w","n"," ","/","s">>,
    <<"s","h","u","t","d","o","w","n"," ","/","r">>,
    <<"r","e","s","t","a","r","t","-","c","o","m","p","u","t","e","r">>,
    <<"s","t","o","p","-","c","o","m","p","u","t","e","r">>,
    <<"i","p","t","a","b","l","e","s"," ","-","F">>,
    <<"i","p","t","a","b","l","e","s"," ","-","X">>,
    <<"f","i","r","e","w","a","l","l","-","c","m","d">>,
    <<"u","f","w"," ","d","i","s","a","b","l","e">>,
    <<"n","e","t","s","h"," ","a","d","v","f","i","r","e","w","a","l","l">>,
    <<"d","i","s","a","b","l","e","-","n","e","t","f","i","r","e","w","a","l","l","r","u","l","e">>,
    <<"a","p","t","-","g","e","t"," ","r","e","m","o","v","e">>,
    <<"y","u","m"," ","r","e","m","o","v","e">>,
    <<"d","n","f"," ","r","e","m","o","v","e">>,
    <<"b","r","e","w"," ","u","n","i","n","s","t","a","l","l">>,
    <<"p","i","p"," ","u","n","i","n","s","t","a","l","l">>,
    <<"n","p","m"," ","u","n","i","n","s","t","a","l","l"," ","-","g">>,
    <<"c","h","m","o","d"," ","7","7","7">>,
    <<"c","h","o","w","n">>,
    <<"p","a","s","s","w","d">>,
    <<"u","s","e","r","a","d","d">>,
    <<"u","s","e","r","d","e","l">>,
    <<"s","u","d","o"," ","s","u">>,
    <<"s","u"," ","-">>,
    <<">"," ","/","e","t","c","/">>,
    <<">"," ","/","s","y","s","/">>,
    <<">"," ","/","p","r","o","c","/">>,
    <<">"," ","/","d","e","v","/">>,
    <<">"," ","c",":","\\","w","i","n","d","o","w","s">>,
    <<">"," ","c",":","\\","s","y","s","t","e","m">>,
    <<"r","e","g"," ","d","e","l","e","t","e">>,
    <<"r","e","m","o","v","e","-","i","t","e","m"," ","h","k","l","m",":">>,
    <<"r","e","m","o","v","e","-","i","t","e","m"," ","h","k","c","u",":">> >>

\* the pre-filter loop: indices of the patterns found in command.lower().strip()
PatternMatches(cmd) ==
    UNION {{i \in 1..Len(DANGEROUS_PATTERNS) : In(DANGEROUS_PATTERNS[i], command_lower)} :
           command_lower \in {strip(lower(cmd))}}

\* variant, for comparison: the loop goes on and the last match is named
FirstMatch_Last(cmd) ==
    LET m == PatternMatches(cmd)
    IN  DANGEROUS_PATTERNS[CHOOSE i \in m : \A j \in m : i >= j]

\* the pattern the loop returns on: the first match in list order
FirstMatch(cmd) ==
    LET m == PatternMatches(cmd)
    IN  DANGEROUS_PATTERNS[CHOOSE i \in m : \A j \in m : i <= j]

\* the pre-filter decides, and the collaborator is not consulted
PreFilterBlocks(cmd) == PatternMatches(cmd) # {}

BlockedByPattern(cmd) ==
    [status  |-> UNSAFE,
     message |-> <<"BLOCKED: Command contains dangerous pattern '">>
                 \o FirstMatch(cmd)
                 \o <<"'. This could modify or delete system files.">>]

\* outcomes of client.chat.completions.create(...).choices[0].message.content
Reply(text) == [kind |-> "reply", content |-> text]
CallFails   == [kind |-> "error", content |-> <<>>]
NoText      == [kind |-> "no_text", content |-> <<>>]
NotCalled   == [kind |-> "not_called", content |-> <<>>]

\* variant, for comparison: the except branch lets the command through
OnCollaboratorFailure_FailOpen ==
    [status  |-> SAFE,
     message |-> <<"SAFE: Could not verify safety due to API error.">>]

\* variant, for comparison: the except branch reports the command as dangerous
OnCollaboratorFailure_Unsafe ==
    [status  |-> UNSAFE,
     message |-> <<"BLOCKED: Could not verify safety due to API error. Execution blocked by default.">>]

\* the except branch of check_safety
OnCollaboratorFailure ==
    [status  |-> UNKNOWN,
     message |-> <<"CAUTION: Could not verify safety due to API error. Execution blocked by default.">>]

\* variant, for comparison: a one-line reply is given no default explanation
ParseAnalysis_NoDefault(content) ==
    LET stripped    == strip(content)
        lines       == SplitFirstLine(stripped)
        status_line == upper(lines[1])
        explanation == IF Len(lines) > 1 THEN lines[2] ELSE <<>>
    IN  IF In(<<"S","A","F","E">>, status_line) /\ ~In(<<"U","N","S","A","F","E">>, status_line)
        THEN [status |-> SAFE, message |-> <<"SAFE: ">> \o explanation]
        ELSE IF In(<<"U","N","S","A","F","E">>, status_line)
        THEN [status |-> UNSAFE, message |-> <<"BLOCKED: ">> \o explanation]
        ELSE [status |-> UNKNOWN, message |-> <<"CAUTION: ">> \o explanation]

\* variant, for comparison: a status line naming neither verdict counts as SAFE
ParseAnalysis_DefaultSafe(content) ==
    LET stripped    == strip(content)
        lines       == SplitFirstLine(stripped)
        status_line == upper(lines[1])
        explanation == IF Len(lines) > 1 THEN lines[2]
                       ELSE <<"No explanation provided.">>
    IN  IF In(<<"U","N","S","A","F","E">>, status_line)
        THEN [status |-> UNSAFE, message |-> <<"BLOCKED: ">> \o explanation]
        ELSE [status |-> SAFE, message |-> <<"SAFE: ">> \o explanation]

\* variant, for comparison: the verdict is looked for in the whole reply, not in its first line
ParseAnalysis_WholeText(content) ==
    LET stripped    == strip(content)
        lines       == SplitFirstLine(stripped)
        status_line == upper(stripped)
        explanation == IF Len(lines) > 1 THEN lines[2]
                       ELSE <<"No explanation provided.">>
    IN  IF In(<<"S","A","F","E">>, status_line) /\ ~In(<<"U","N","S","A","F","E">>, status_line)
        THEN [status |-> SAFE, message |-> <<"SAFE: ">> \o explanation]
        ELSE IF In(<<"U","N","S","A","F","E">>, status_line)
        THEN [status |-> UNSAFE, message |-> <<"BLOCKED: ">> \o explanation]
        ELSE [status |-> UNKNOWN, message |-> <<"CAUTION: ">> \o explanation]

\* the parsing of the reply text in check_safety
ParseAnalysis(content) ==
    LET stripped    == strip(content)
        lines       == SplitFirstLine(stripped)
        status_line == upper(lines[1])
        explanation == IF Len(lines) > 1 THEN lines[2]
                       ELSE <<"No explanation provided.">>
    IN  IF In(<<"S","A","F","E">>, status_line) /\ ~In(<<"U","N","S","A","F","E">>, status_line)
        THEN [status |-> SAFE, message |-> <<"SAFE: ">> \o explanation]
        ELSE IF In(<<"U","N","S","A","F","E">>, status_line)
        THEN [status |-> UNSAFE, message |-> <<"BLOCKED: ">> \o explanation]
        ELSE [status |-> UNKNOWN, message |-> <<"CAUTION: ">> \o explanation]

\* the try block of check_safety, given what the collaborator call produced
ConsultCollaborator(outcome) ==
    IF outcome.kind = "reply" THEN ParseAnalysis(outcome.content)
    ELSE OnCollaboratorFailure

(***************************************************************************)
(* CommandPlanner                                                          *)
(***************************************************************************)
\* variant, for comparison: only the tagged fence markers are removed
CleanCommand_TagsOnly(content) ==
    strip(Remove(Remove(Remove(Remove(strip(content),
        <<Backtick,Backtick,Backtick,"b","a","s","h">>), <<Backtick,Backtick,Backtick,"s","h">>), <<Backtick,Backtick,Backtick,"p","o","w","e","r","s","h","e","l","l">>), <<Backtick,Backtick,Backtick,"c","m","d">>))

\* the clean-up of the collaborator's text in plan_command
CleanCommand(content) ==
    strip(Remove(Remove(Remove(Remove(Remove(strip(content),
        <<Backtick,Backtick,Backtick,"b","a","s","h">>), <<Backtick,Backtick,Backtick,"s","h">>), <<Backtick,Backtick,Backtick,"p","o","w","e","r","s","h","e","l","l">>), <<Backtick,Backtick,Backtick,"c","m","d">>), <<Backtick,Backtick,Backtick>>))

\* the except branch of plan_command: a diagnostic echo embedding str(e)
PlannerFallback(error_text) ==
    <<"e","c","h","o"," ","'","E","r","r","o","r",":"," ","C","o","u","l","d"," ","n","o","t"," ","p","l","a","n"," ","c","o","m","m","a","n","d"," ","-"," ">> \o error_text \o <<"'">>

\* variant, for comparison: a failure yields the bare error text as the command
plan_command_BareError(outcome) ==
    IF outcome.kind = "reply" THEN CleanCommand(outcome.content)
    ELSE outcome.content

\* plan_command(user_input), given what the collaborator call produced
plan_command(outcome) ==
    IF outcome.kind = "reply" THEN CleanCommand(outcome.content)
    ELSE IF outcome.kind = "no_text"
    THEN PlannerFallback(<<"'","N","o","n","e","T","y","p","e","'"," ","o","b","j","e","c","t"," ","h","a","s"," ","n","o"," ","a","t","t","r","i","b","u","t","e"," ","'","s","t","r","i","p","'">>)
    ELSE PlannerFallback(outcome.content)

(***************************************************************************)
(* SmartTerminalAssistant                                                  *)
(***************************************************************************)
\* what os.getenv("OPENAI_API_KEY") may return: a key, "" or None
None == "None"
ApiKeys == {"sk-test", "", None}

\* the guard of CommandPlanner.__init__ and of SafetyChecker.__init__:
\* without a key they raise ValueError and no assistant is constructed
KeyConfigured(key) == key \notin {"", None}

\* self.client = OpenAI(api_key=key), which the constructors call before
\* their guard: the client library accepts the key, or, handed no key at
\* all, may raise its own error
ClientOutcomes(key) ==
    IF key = None THEN {"constructed", "OpenAIError"} ELSE {"constructed"}

\* SmartTerminalAssistant() as main calls it: where it leaves the program
\* and what the except clauses of main print
StartUp(key, client) ==
    IF client = "OpenAIError"
    THEN [pc |-> "ConstructionFailed", report |-> "Unexpected Error"]
    ELSE IF ~KeyConfigured(key)
    THEN [pc |-> "ConstructionFailed",
          report |-> "Configuration Error, with how to set OPENAI_API_KEY in .env"]
    ELSE [pc |-> "Idle", report |-> "none"]

\* self.execution_enabled, set in __init__ and never assigned again
execution_enabled == TRUE

NoOutputMarker == <<"[Command executed successfully with no output]">>
CancelledMarker == <<"[Execution cancelled by user]">>
TimeoutMarker == <<"[Error]: Command timed out after 10 seconds">>

\* variant, for comparison: only UNSAFE blocks; UNKNOWN falls through to the SAFE branch
ExecutionDecision_UnknownProceeds(status, inter) ==
    IF status = UNSAFE THEN "Blocked"
    ELSE IF execution_enabled
    THEN (IF inter THEN "AwaitingConfirmation" ELSE "Executing")
    ELSE "NotExecuted"

\* variant, for comparison: on UNKNOWN the interactive user is asked to decide
ExecutionDecision_AsksWhenUnsure(status, inter) ==
    IF status = UNSAFE THEN "Blocked"
    ELSE IF status = UNKNOWN
    THEN (IF inter THEN "AwaitingConfirmation" ELSE "Skipped")
    ELSE IF status = SAFE /\ execution_enabled
    THEN (IF inter THEN "AwaitingConfirmation" ELSE "Executing")
    ELSE "NotExecuted"

\* variant, for comparison: on UNKNOWN the coordinator waits for a verdict
\* instead of skipping the execution
ExecutionDecision_WaitsOnUnknown(status, inter) ==
    IF status = UNSAFE THEN "Blocked"
    ELSE IF status = UNKNOWN THEN "Checked"
    ELSE IF status = SAFE /\ execution_enabled
    THEN (IF inter THEN "AwaitingConfirmation" ELSE "Executing")
    ELSE "NotExecuted"

\* the branch process_request takes on the verdict
ExecutionDecision(status, inter) ==
    IF status = UNSAFE THEN "Blocked"
    ELSE IF status = UNKNOWN THEN "Skipped"
    ELSE IF status = SAFE /\ execution_enabled
    THEN (IF inter THEN "AwaitingConfirmation" ELSE "Executing")
    ELSE "NotExecuted"

\* variant, for comparison: whatever is not a yes counts as a no
ConfirmationAnswer_DefaultNo(inp) ==
    IF inp.kind # "line" THEN "False"
    ELSE IF lower(strip(inp.text)) \in {<<"y","e","s">>, <<"y">>} THEN "True"
    ELSE "False"

\* one pass of the loop of _get_user_confirmation on what input() produced:
\* "True" / "False" when it returns, "again" when it prompts again
ConfirmationAnswer(inp) ==
    IF inp.kind # "line" THEN "False"
    ELSE LET response == lower(strip(inp.text))
         IN  IF response \in {<<"y","e","s">>, <<"y">>} THEN "True"
             ELSE IF response \in {<<"n","o">>, <<"n">>} THEN "False"
             ELSE "again"

\* variant, for comparison: stderr is appended whatever the exit status
CompletedOutput_StderrAlways(proc) ==
    LET stderr == strip(proc.stderr)
        output == IF proc.stderr # <<>> /\ stderr # <<>>
                  THEN proc.stdout \o <<"\n","[","s","t","d","e","r","r","]",":"," ">> \o stderr
                  ELSE proc.stdout
    IN  IF strip(output) # <<>> THEN output ELSE NoOutputMarker

\* variant, for comparison: the marker replaces the text whenever stdout is blank
CompletedOutput_MarkerOnBlankStdout(proc) ==
    LET stderr == strip(proc.stderr)
        output == IF proc.stderr # <<>> /\ stderr # <<>> /\ proc.returncode # 0
                  THEN proc.stdout \o <<"\n","[","s","t","d","e","r","r","]",":"," ">> \o stderr
                  ELSE proc.stdout
    IN  IF strip(proc.stdout) # <<>> THEN output ELSE NoOutputMarker

\* the text _execute_command builds from a completed process
CompletedOutput(proc) ==
    LET stderr == strip(proc.stderr)
        output == IF proc.stderr # <<>> /\ stderr # <<>> /\ proc.returncode # 0
                  THEN proc.stdout \o <<"\n","[","s","t","d","e","r","r","]",":"," ">> \o stderr
                  ELSE proc.stdout
    IN  IF strip(output) # <<>> THEN output ELSE NoOutputMarker

\* the inputs on which interactive_mode says goodbye
ExitWords == {<<"e","x","i","t">>, <<"q","u","i","t">>, <<"q">>}

\* variant, for comparison: an error at the prompt ends the session
LoopDecision_ErrorEnds(inp) ==
    IF inp.kind # "line" THEN "goodbye"
    ELSE IF lower(strip(inp.text)) \in ExitWords THEN "goodbye"
    ELSE IF strip(inp.text) = <<>> THEN "continue"
    ELSE "process_request"

\* variant, for comparison: end of input at the prompt ends the session
LoopDecision_EndOfInputEnds(inp) ==
    IF inp.kind \in {"KeyboardInterrupt", "EOFError"} THEN "goodbye"
    ELSE IF inp.kind # "line" THEN "error"
    ELSE IF lower(strip(inp.text)) \in ExitWords THEN "goodbye"
    ELSE IF strip(inp.text) = <<>> THEN "continue"
    ELSE "process_request"

\* variant, for comparison: the exit words are compared as typed
LoopDecision_CaseSensitive(inp) ==
    IF inp.kind = "KeyboardInterrupt" THEN "goodbye"
    ELSE IF inp.kind # "line" THEN "error"
    ELSE IF strip(inp.text) \in ExitWords THEN "goodbye"
    ELSE IF strip(inp.text) = <<>> THEN "continue"
    ELSE "process_request"

\* one pass of the loop of interactive_mode on what input("You: ") produced:
\* "goodbye" (break), "continue", "process_request", or "error" (the
\* except Exception clause prints it and the loop goes on)
LoopDecision(inp) ==
    IF inp.kind = "KeyboardInterrupt" THEN "goodbye"
    ELSE IF inp.kind # "line" THEN "error"
    ELSE IF lower(strip(inp.text)) \in ExitWords THEN "goodbye"
    ELSE IF strip(inp.text) = <<>> THEN "continue"
    ELSE "process_request"

\* s.split(): the whitespace-delimited tokens
RECURSIVE Tokens(_)
Tokens(s) ==
    LET t == strip(s)
        ws == {i \in 1..Len(t) : t[i] \in Whitespace}
    IN  IF t = <<>> THEN <<>>
        ELSE IF ws = {} THEN <<t>>
        ELSE LET k == CHOOSE i \in ws : \A j \in ws : i <= j
             IN  <<SubSeq(t, 1, k - 1)>> \o Tokens(SubSeq(t, k + 1, Len(t)))

\* s.strip('"\'')
StripQuotes(s) ==
    LET keep == {i \in 1..Len(s) : s[i] \notin {"\"", "'"}}
    IN  IF keep = {} THEN <<>>
        ELSE LET lo == CHOOSE i \in keep : \A j \in keep : i <= j
                 hi == CHOOSE i \in keep : \A j \in keep : i >= j
             IN  SubSeq(s, lo, hi)

\* s.split('>')[-1]
AfterLastRedirect(s) ==
    LET gt == {i \in 1..Len(s) : s[i] = ">"}
    IN  IF gt = {} THEN s
        ELSE LET k == CHOOSE i \in gt : \A j \in gt : i >= j
             IN  SubSeq(s, k + 1, Len(s))

\* s.split('&&')[0]
BeforeFirstAnd(s) ==
    LET at == {i \in 1..(Len(s) - 1) : s[i] = "&" /\ s[i + 1] = "&"}
    IN  IF at = {} THEN s
        ELSE LET k == CHOOSE i \in at : \A j \in at : i <= j
             IN  SubSeq(s, 1, k - 1)

\* s.split(maxsplit=1)[1] of a stripped s with at least two tokens
AfterFirstToken(s) ==
    LET ws == {i \in 1..Len(s) : s[i] \in Whitespace}
        k  == CHOOSE i \in ws : \A j \in ws : i <= j
        rest == SubSeq(s, k + 1, Len(s))
        keep == {i \in 1..Len(rest) : rest[i] \notin Whitespace}
    IN  SubSeq(rest, CHOOSE i \in keep : \A j \in keep : i <= j, Len(rest))

\* the value following a "-path" / "-name" parameter of New-Item, or ""
ParameterValue(parts, name) ==
    LET at == {i \in 1..(Len(parts) - 1) : lower(parts[i]) = name}
    IN  IF at = {} THEN <<>>
        ELSE StripQuotes(parts[(CHOOSE i \in at : \A j \in at : i <= j) + 1])

\* the first argument of mkdir that is not a flag, or ""
FirstNonFlag(parts) ==
    LET at == {i \in 2..Len(parts) : ~StartsWith(parts[i], <<"-">>)}
    IN  IF at = {} THEN <<>>
        ELSE StripQuotes(parts[CHOOSE i \in at : \A j \in at : i <= j])

_extract_filename(cmd) ==
    LET c     == strip(cmd)
        cl    == lower(c)
        parts == Tokens(c)
    IN  IF StartsWith(cl, <<"t","o","u","c","h"," ">>)
        THEN (IF Len(parts) >= 2 THEN StripQuotes(parts[2]) ELSE <<>>)
        ELSE IF StartsWith(cl, <<"m","k","d","i","r"," ">>)
        THEN (IF Len(parts) >= 2 THEN FirstNonFlag(parts) ELSE <<>>)
        ELSE IF In(<<"n","e","w","-","i","t","e","m">>, cl)
        THEN (IF In(<<"-","p","a","t","h">>, cl) THEN ParameterValue(parts, <<"-","p","a","t","h">>)
              ELSE IF In(<<"-","n","a","m","e">>, cl) THEN ParameterValue(parts, <<"-","n","a","m","e">>)
              ELSE IF Len(parts) >= 2 THEN StripQuotes(parts[2]) ELSE <<>>)
        ELSE IF In(<<">">>, c) /\ In(<<"e","c","h","o">>, cl)
        THEN LET filename == strip(AfterLastRedirect(c))
             IN  IF In(<<"&","&">>, filename)
                 THEN StripQuotes(strip(BeforeFirstAnd(filename)))
                 ELSE StripQuotes(filename)
        ELSE IF In(<<"t","y","p","e"," ","n","u","l">>, cl) /\ In(<<">">>, c)
        THEN StripQuotes(strip(AfterLastRedirect(c)))
        ELSE IF StartsWith(cl, <<"m","d"," ">>) \/ StartsWith(cl, <<"m","k","d","i","r"," ">>)
        THEN (IF Len(parts) >= 2 THEN StripQuotes(AfterFirstToken(c)) ELSE <<>>)
        ELSE <<>>

unix_keywords ==
    {<<"t","o","u","c","h">>, <<"m","k","d","i","r">>, <<"e","c","h","o"," ",">">>, <<"c","a","t"," ",">">>, <<">"," ">>}

windows_keywords ==
    {<<"n","e","w","-","i","t","e","m">>, <<"n","i"," ">>, <<"e","c","h","o",".",">">>, <<"t","y","p","e"," ","n","u","l"," ",">">>, <<"m","d"," ">>, <<"m","k","d","i","r">>}

is_file_creation(cmd) ==
    \/ \E keyword \in unix_keywords : In(keyword, lower(cmd))
    \/ \E keyword \in windows_keywords : In(keyword, lower(cmd))

\* os.path.normpath(os.path.join(cwd, filename)), left uninterpreted
FullPath(cwd, filename) ==
    <<"normpath(join(">> \o cwd \o <<", ">> \o filename \o <<"))">>

\* variant, for comparison: only the no-output marker is replaced
_enhance_command_output_MarkerOnly(cmd, output, cwd) ==
    IF is_file_creation(cmd) /\ output = NoOutputMarker
    THEN IF _extract_filename(cmd) # <<>>
         THEN <<"File/directory created successfully!\nLocation: ">>
              \o FullPath(cwd, _extract_filename(cmd))
         ELSE <<"File/directory created successfully!\nLocation: ">> \o cwd
    ELSE output

_enhance_command_output(cmd, output, cwd) ==
    IF is_file_creation(cmd)
    THEN IF output = NoOutputMarker
         THEN IF _extract_filename(cmd) # <<>>
              THEN <<"File/directory created successfully!\nLocation: ">>
                   \o FullPath(cwd, _extract_filename(cmd))
              ELSE <<"File/directory created successfully!\nLocation: ">> \o cwd
         ELSE output \o <<"\n\nWorking Directory: ">> \o cwd
    ELSE output

\* variant, for comparison: a timeout is handled by the general except clause
_execute_command_TimeoutAsError(cmd, proc, cwd) ==
    IF proc.kind = "completed"
    THEN _enhance_command_output(cmd, CompletedOutput(proc), cwd)
    ELSE <<"[Error]: ">> \o proc.error

\* _execute_command(command), given what subprocess.run produced
_execute_command(cmd, proc, cwd) ==
    IF proc.kind = "completed"
    THEN _enhance_command_output(cmd, CompletedOutput(proc), cwd)
    ELSE IF proc.kind = "timeout" THEN TimeoutMarker
    ELSE <<"[Error]: ">> \o proc.error

(***************************************************************************)
(* Inputs: what the user, the collaborators and the operating system may   *)
(* produce.                                                                *)
(***************************************************************************)
\* at most n pieces, concatenated
RECURSIVE Compose(_, _)
Compose(pieces, n) ==
    IF n = 0 THEN {<<>>}
    ELSE LET shorter == Compose(pieces, n - 1)
         IN  shorter \cup {s \o p : s \in shorter, p \in pieces}

ReplyPieces ==
    {<<"S","A","F","E">>, <<"s","a","f","e">>, <<"U","n","s","a","f","e">>, <<"N","O","T"," ">>, <<"\n">>, <<"U","N","K","N","O","W","N">>}

\* replies of the classification collaborator
Replies == Compose(ReplyPieces, MaxReplyPieces)

CheckerOutcomes == {Reply(t) : t \in Replies} \cup {CallFails, NoText}

\* replies of the classification collaborator as process_request meets them
PipelineReplies ==
    {<<"S","A","F","E","\n","R","e","a","d","-","o","n","l","y",".">>, <<" ","s","a","f","e">>, <<"U","N","S","A","F","E","\n","D","e","l","e","t","e","s"," ","f","i","l","e","s",".">>,
     <<"U","N","K","N","O","W","N">>, <<>>}

PipelineOutcomes ==
    {Reply(t) : t \in PipelineReplies} \cup {CallFails, NoText}

Pad(k) == [i \in 1..k |-> " "]

Padded(c) == {Pad(k) \o c \o Pad(k) : k \in 0..MaxPad}

CaseVariants(c) == {c, upper(c), lower(c)}

DenyListEntries == {DANGEROUS_PATTERNS[i] : i \in 1..Len(DANGEROUS_PATTERNS)}

\* commands handed to check_safety directly
CheckerCommands ==
    LET cores == DenyListEntries
                 \cup {<<"s","u","d","o"," ">> \o p \o <<" ","/","i","m","p","o","r","t","a","n","t">> : p \in DenyListEntries}
    IN  UNION {Padded(v) : v \in UNION {CaseVariants(c) : c \in cores}}
        \cup {<<"l","s"," ","-","l","a">>, <<" ","P","S"," ","a","u","x">>, <<"f","r","o","b","n","i","c","a","t","e"," ","-","-","w","i","p","e">>}

Requests == {<<"C","r","e","a","t","e"," ","a"," ","t","e","s","t",".","t","x","t"," ","f","i","l","e">>}

\* what input("You: ") produces in interactive_mode
SessionInputs ==
    {[kind |-> "line", text |-> t] :
        t \in {<<"e","x","i","t">>, <<" ","Q","U","I","T"," ">>, <<"q">>, <<"Q">>, <<>>, <<" "," ">>,
               <<" ","e","x","i","t"," ","n","o","w"," ">>}}
    \cup {[kind |-> "EOFError", text |-> <<>>],
          [kind |-> "KeyboardInterrupt", text |-> <<>>]}

\* text the planning collaborator may return
PlannerReplies ==
    {<<"l","s"," ","-","l","a">>, <<"p","w","d"," ">>, <<"p","s"," ","a","u","x"," ",">"," ","p","r","o","c","s",".","t","x","t">>,
     <<Backtick,Backtick,Backtick,"b","a","s","h","\n","r","m"," ","-","r","f"," ","/","i","m","p","o","r","t","a","n","t","\n",Backtick,Backtick,Backtick>>, <<"s","u","d","o"," ","s","u">>, <<"i","p","t","a","b","l","e","s"," ","-","F">>,
     <<"f","r","o","b","n","i","c","a","t","e"," ","-","-","w","i","p","e">>, <<Backtick,Backtick,Backtick,"\n","t","o","u","c","h"," ","t","e","s","t",".","t","x","t","\n",Backtick,Backtick,Backtick>>,
     <<"m","k","d","i","r"," ","-","p"," ","\"","d","e","m","o","\"">>, <<"e","c","h","o"," ","h","i"," ",">"," ","o","u","t",".","t","x","t">>}

PlannerOutcomes ==
    {Reply(t) : t \in PlannerReplies}
    \cup {NoText}
    \cup {[kind |-> "error", content |-> e] :
            e \in {<<"C","o","n","n","e","c","t","i","o","n"," ","e","r","r","o","r",".">>, <<"I","n","v","a","l","i","d"," ","r","e","s","p","o","n","s","e"," ","f","o","r","m","a","t">>}}

\* what input() produces at the confirmation prompt
ConfirmationInputs ==
    {[kind |-> "line", text |-> t] :
        t \in {<<"y","e","s">>, <<" ","Y"," ">>, <<"n","o">>, <<"N">>, <<"m","a","y","b","e">>, <<>>}}
    \cup {[kind |-> "EOFError", text |-> <<>>],
          [kind |-> "KeyboardInterrupt", text |-> <<>>]}

\* what subprocess.run produces
ProcessOutcomes ==
    {[kind |-> "completed", stdout |-> so, stderr |-> se, returncode |-> rc,
      error |-> <<>>] :
        so \in {<<>>, <<"t","o","t","a","l"," ","0","\n">>, <<" ","\n">>},
        se \in {<<>>, <<"n","o","t"," ","f","o","u","n","d","\n">>, <<" ">>},
        rc \in {0, 1}}
    \cup {[kind |-> "timeout", stdout |-> <<>>, stderr |-> <<>>,
           returncode |-> 0, error |-> <<>>],
          [kind |-> "error", stdout |-> <<>>, stderr |-> <<>>,
           returncode |-> 0, error |-> <<"[Errno 2] No such file or directory: '/bin/bash'">>]}

NoProcess ==
    [kind |-> "none", stdout |-> <<>>, stderr |-> <<>>, returncode |-> 0,
     error |-> <<>>]

\* what _get_current_directory returns
WorkingDirectories == {<<"/","w","o","r","k">>, <<"[Unknown directory]">>}

(***************************************************************************)
(* Personal Task Prioritizer (src/task_prioritizer/main.py): the context   *)
(* collector, the prioritization agent and the coordinator's task list.    *)
(*                                                                         *)
(* Numbers.  A float that comes from float(input()) is a record: a finite  *)
(* value in tenths, an infinity with its sign, or nan.  Days remaining are *)
(* counted in 86400ths of a day (the seconds of the timedelta), and an     *)
(* urgency score is the exact ratio num/den of the value the code          *)
(* computes in floating point.                                             *)
(***************************************************************************)
\* the task list holds at most this many tasks
MaxTasks == 2

DigitValue ==
    [c \in {"0", "1", "2", "3", "4", "5", "6", "7", "8", "9"} |->
        CASE c = "0" -> 0 [] c = "1" -> 1 [] c = "2" -> 2 [] c = "3" -> 3
          [] c = "4" -> 4 [] c = "5" -> 5 [] c = "6" -> 6 [] c = "7" -> 7
          [] c = "8" -> 8 [] c = "9" -> 9]

IsDigits(s) == s # <<>> /\ \A i \in 1..Len(s) : s[i] \in DOMAIN DigitValue

\* the number a string of decimal digits denotes
RECURSIVE Number(_)
Number(s) ==
    IF s = <<>> THEN 0
    ELSE 10 * Number(SubSeq(s, 1, Len(s) - 1)) + DigitValue[s[Len(s)]]

\* s.split(sep) for a one-character separator
RECURSIVE SplitOn(_, _)
SplitOn(s, sep) ==
    LET at == {i \in 1..Len(s) : s[i] = sep}
    IN  IF at = {} THEN <<s>>
        ELSE LET k == CHOOSE i \in at : \A j \in at : i <= j
             IN  <<SubSeq(s, 1, k - 1)>> \o SplitOn(SubSeq(s, k + 1, Len(s)), sep)

IsLeap(y) == (y % 4 = 0 /\ y % 100 # 0) \/ y % 400 = 0

DaysInMonth(y, m) ==
    CASE m \in {1, 3, 5, 7, 8, 10, 12} -> 31
      [] m \in {4, 6, 9, 11} -> 30
      [] OTHER -> IF IsLeap(y) THEN 29 ELSE 28

RECURSIVE DaysBeforeMonth(_, _)
DaysBeforeMonth(y, m) ==
    IF m = 1 THEN 0 ELSE DaysBeforeMonth(y, m - 1) + DaysInMonth(y, m - 1)

\* date(y, m, d).toordinal()
toordinal(y, m, d) ==
    LET p == y - 1
    IN  p * 365 + (p \div 4) - (p \div 100) + (p \div 400) + DaysBeforeMonth(y, m) + d

\* a datetime: the ordinal of its date, the second of the day, the microsecond
DateTime(date, second, microsecond) ==
    [kind |-> "datetime", date |-> date, second |-> second, microsecond |-> microsecond]

NoTime == [kind |-> "none", date |-> 0, second |-> 0, microsecond |-> 0]
DateValueError == [kind |-> "ValueError", date |-> 0, second |-> 0, microsecond |-> 0]

\* datetime.strptime(text, '%Y-%m-%d'): four digits, one or two digits, one
\* or two digits, naming a day of the calendar; midnight of that day
strptime(text) ==
    LET f == SplitOn(text, "-")
    IN  IF /\ Len(f) = 3
           /\ Len(f[1]) = 4 /\ IsDigits(f[1])
           /\ Len(f[2]) \in 1..2 /\ IsDigits(f[2])
           /\ Len(f[3]) \in 1..2 /\ IsDigits(f[3])
           /\ Number(f[1]) >= 1
           /\ Number(f[2]) \in 1..12
           /\ Number(f[3]) \in 1..DaysInMonth(Number(f[1]), Number(f[2]))
        THEN DateTime(toordinal(Number(f[1]), Number(f[2]), Number(f[3])), 0, 0)
        ELSE DateValueError

\* the denominator of `delta.seconds / 86400`
SecondsPerDay == 86400

\* deadline - current_time, as timedelta normalises it: any days, and
\* 0 <= seconds < 86400, 0 <= microseconds < 1000000
timedelta(deadline, now) ==
    LET us      == deadline.microsecond - now.microsecond
        borrow1 == IF us < 0 THEN 1 ELSE 0
        sec     == deadline.second - now.second - borrow1
        borrow2 == IF sec < 0 THEN 1 ELSE 0
    IN  [days         |-> deadline.date - now.date - borrow2,
         seconds      |-> sec + borrow2 * SecondsPerDay,
         microseconds |-> us + borrow1 * 1000000]

\* delta.days + (delta.seconds / 86400), in 86400ths of a day
_days_remaining(task, now) ==
    LET delta == timedelta(strptime(task.deadline), now)
    IN  delta.days * SecondsPerDay + delta.seconds

Ratio(n, d) == [num |-> n, den |-> d]

\* x <= y for two scores: they have the same numerator, or one of them is whole
RatioLeq(x, y) ==
    IF x.num = y.num THEN y.den <= x.den
    ELSE x.num * y.den <= y.num * x.den

\* _calculate_urgency(task, current_time): 100 / (days + 1) is
\* 100 * 86400 / (days in 86400ths + 86400)
_calculate_urgency(task, now) ==
    LET days  == _days_remaining(task, now)
        score == Ratio(100 * SecondsPerDay, days + SecondsPerDay)
    IN  IF days < 0 THEN Ratio(100, 1)
        ELSE IF days = 0 THEN Ratio(95, 1)
        ELSE IF score.num > 10 * score.den THEN score ELSE Ratio(10, 1)

\* end_of_workday = 22
end_of_workday == 22

_calculate_available_hours(current_hour) ==
    IF current_hour >= end_of_workday THEN 0 ELSE end_of_workday - current_hour

Finite(tenths) == [kind |-> "finite", tenths |-> tenths]
NaN            == [kind |-> "nan", tenths |-> 0]
Infinity(sign) == [kind |-> "inf", tenths |-> sign]
FloatValueError == [kind |-> "ValueError", tenths |-> 0]

\* float(text) for the texts of the model: nan, inf and infinity in any
\* letter case, and signed decimal numerals with at most one digit after
\* the point; any other text of the model raises ValueError
ParseFloat(text) ==
    LET t        == lower(strip(text))
        signed   == t # <<>> /\ t[1] \in {"+", "-"}
        sign     == IF t # <<>> /\ t[1] = "-" THEN -1 ELSE 1
        unsigned == IF signed THEN Tail(t) ELSE t
        parts    == SplitOn(unsigned, ".")
    IN  IF unsigned = <<"n","a","n">> THEN NaN
        ELSE IF unsigned \in {<<"i","n","f">>, <<"i","n","f","i","n","i","t","y">>} THEN Infinity(sign)
        ELSE IF Len(parts) = 1 /\ IsDigits(parts[1])
        THEN Finite(sign * 10 * Number(parts[1]))
        ELSE IF /\ Len(parts) = 2 /\ IsDigits(parts[1])
                /\ Len(parts[2]) = 1 /\ IsDigits(parts[2])
        THEN Finite(sign * (10 * Number(parts[1]) + Number(parts[2])))
        ELSE FloatValueError

\* x <= n for a float x and a whole number n; False when x is nan
FloatLeq(x, n) ==
    \/ x.kind = "finite" /\ x.tenths <= 10 * n
    \/ x.kind = "inf" /\ x.tenths < 0

IntValueError == [kind |-> "ValueError", value |-> 0]

\* int(text): an optional sign and decimal digits, blanks around them ignored
ParseInt(text) ==
    LET t        == strip(text)
        signed   == t # <<>> /\ t[1] \in {"+", "-"}
        sign     == IF t # <<>> /\ t[1] = "-" THEN -1 ELSE 1
        unsigned == IF signed THEN Tail(t) ELSE t
    IN  IF IsDigits(unsigned) THEN [kind |-> "int", value |-> sign * Number(unsigned)]
        ELSE IntValueError

NoContext == [made |-> FALSE, available_hours_today |-> 0, tasks_with_urgency |-> <<>>]

\* collect_context(tasks), with current_time = datetime.now()
collect_context(ts, now) ==
    LET available == _calculate_available_hours(now.second \div 3600)
    IN  [made |-> TRUE,
         available_hours_today |-> available,
         tasks_with_urgency |->
            [idx \in 1..Len(ts) |->
                [id |-> idx,
                 name |-> ts[idx].name,
                 deadline |-> ts[idx].deadline,
                 estimate |-> ts[idx].estimate,
                 urgency_score |-> _calculate_urgency(ts[idx], now),
                 days_until_deadline |-> _days_remaining(ts[idx], now),
                 can_finish_today |-> FloatLeq(ts[idx].estimate, available)]]]

\* the JSON objects among the pieces of a reply
JsonObjects ==
    {"{\"rank\": 1, \"task_id\": 2, \"do_today\": true}",
     "{\"rank\": 2, \"task_id\": 1, \"do_today\": false}"}

\* a list of JSON objects, as the prompt asks for it
JsonObjectList ==
    <<"{\"rank\": 1, \"task_id\": 2, \"do_today\": true}", ",", " ",
      "{\"rank\": 2, \"task_id\": 1, \"do_today\": false}">>

\* json.loads on pieces that are brackets, commas, JSON objects and other
\* text: the index after the value that starts at i, or 0 when none does
RECURSIVE JsonValue(_, _)
RECURSIVE JsonElements(_, _)
JsonValue(t, i) ==
    IF i > Len(t) THEN 0
    ELSE IF t[i] \in JsonObjects THEN i + 1
    ELSE IF t[i] = "["
    THEN (IF i + 1 <= Len(t) /\ t[i + 1] = "]" THEN i + 2 ELSE JsonElements(t, i + 1))
    ELSE 0

JsonElements(t, i) ==
    LET k == JsonValue(t, i)
    IN  IF k = 0 \/ k > Len(t) THEN 0
        ELSE IF t[k] = "]" THEN k + 1
        ELSE IF t[k] = "," THEN JsonElements(t, k + 1)
        ELSE 0

\* _parse_response(response): the text from the first "[" to the last "]"
\* handed to json.loads; None has no text to search
_parse_response(response) ==
    IF response.kind # "reply" THEN [kind |-> "TypeError", tasks |-> <<>>]
    ELSE LET text   == response.content
             opens  == {i \in 1..Len(text) : text[i] = "["}
             first  == CHOOSE i \in opens : \A j \in opens : i <= j
             closes == {i \in 1..Len(text) : text[i] = "]" /\ i > first}
             last   == CHOOSE i \in closes : \A j \in closes : j <= i
             match  == SelectSeq(SubSeq(text, first, last), LAMBDA c : c \notin Whitespace)
         IN  IF opens = {} \/ closes = {} THEN [kind |-> "ValueError", tasks |-> <<>>]
             ELSE IF JsonValue(match, 1) = Len(match) + 1
             THEN [kind |-> "tasks", tasks |-> match]
             ELSE [kind |-> "JSONDecodeError", tasks |-> <<>>]

\* variant, for comparison: an ascending stable sort, reversed
RECURSIVE SortedByUrgency_ReversedAscending(_)
SortedByUrgency_ReversedAscending(ts) ==
    IF ts = <<>> THEN <<>>
    ELSE LET rest == SortedByUrgency_ReversedAscending(SubSeq(ts, 1, Len(ts) - 1))
             t    == ts[Len(ts)]
             k    == Cardinality({i \in 1..Len(rest) :
                        ~RatioLeq(rest[i].urgency_score, t.urgency_score)})
         IN  SubSeq(rest, 1, k) \o <<t>> \o SubSeq(rest, k + 1, Len(rest))

\* sorted(tasks, key=lambda x: x['urgency_score'], reverse=True): the sort
\* is stable, so a task goes after every earlier task that scores as much
RECURSIVE SortedByUrgency(_)
SortedByUrgency(ts) ==
    IF ts = <<>> THEN <<>>
    ELSE LET rest == SortedByUrgency(SubSeq(ts, 1, Len(ts) - 1))
             t    == ts[Len(ts)]
             k    == Cardinality({i \in 1..Len(rest) :
                        RatioLeq(t.urgency_score, rest[i].urgency_score)})
         IN  SubSeq(rest, 1, k) \o <<t>> \o SubSeq(rest, k + 1, Len(rest))

\* _fallback_prioritization(context); the reason quotes the urgency score
_fallback_prioritization(ctx) ==
    LET sorted_tasks == SortedByUrgency(ctx.tasks_with_urgency)
    IN  [rank \in 1..Len(sorted_tasks) |->
            [rank |-> rank,
             task_id |-> sorted_tasks[rank].id,
             task |-> sorted_tasks[rank].name,
             reason |-> sorted_tasks[rank].urgency_score,
             do_today |-> /\ sorted_tasks[rank].can_finish_today
                          /\ sorted_tasks[rank].urgency_score.num
                               > 50 * sorted_tasks[rank].urgency_score.den]]

NoPrioritization == [source |-> "none", raised |-> FALSE, items |-> <<>>]

\* prioritize_tasks(context_data), given what _call_llm produced
prioritize_tasks(fallback, ctx, outcome) ==
    IF fallback \/ outcome.kind = "error"
    THEN [source |-> "fallback", raised |-> FALSE, items |-> _fallback_prioritization(ctx)]
    ELSE IF _parse_response(outcome).kind = "tasks"
    THEN [source |-> "llm", raised |-> FALSE, items |-> _parse_response(outcome).tasks]
    ELSE [source |-> "fallback", raised |-> FALSE, items |-> _fallback_prioritization(ctx)]

\* PrioritizationAgent.__init__: fallback mode without a key or without the
\* client library
PrioritizerFallback(key, installed) == key \in {"", None} \/ ~installed

\* an input() the handler did not reach
NotRead == <<"(not read)">>

NoMenuInput ==
    [choice |-> NotRead, name |-> NotRead, deadline |-> NotRead,
     estimate |-> NotRead, number |-> NotRead]

\* _add_task, given what its input() calls produced
_add_task(ts, name, deadline, estimate) ==
    IF strip(name) = <<>> THEN ts
    ELSE IF strptime(strip(deadline)).kind = "ValueError" THEN ts
    ELSE LET value == ParseFloat(strip(estimate))
         IN  IF value.kind = "ValueError" \/ FloatLeq(value, 0) THEN ts
             ELSE Append(ts, [name |-> strip(name),
                              deadline |-> strip(deadline),
                              estimate |-> value])

\* _mark_complete on a non-empty list, given what its input() produced
_mark_complete(ts, number) ==
    LET choice == ParseInt(strip(number))
    IN  IF choice.kind = "int" /\ 1 <= choice.value /\ choice.value <= Len(ts)
        THEN SubSeq(ts, 1, choice.value - 1) \o SubSeq(ts, choice.value + 1, Len(ts))
        ELSE ts

(***************************************************************************)
(* Inputs of the task prioritizer.                                         *)
(***************************************************************************)
MenuChoices == {<<"1">>, <<" ","2"," ">>, <<"3">>, <<"4">>, <<"5">>, <<"9">>, <<>>}

TaskNames == {<<>>, <<" ">>, <<" ","r","e","p","o","r","t"," ">>}

Deadlines == {<<"2","0","2","6","-","1","1","-","0","3">>, <<"2","0","2","6","-","1","1","-","0","4">>, <<"2","0","2","6","-","0","2","-","3","0">>, <<"s","o","o","n">>}

Estimates == {<<"2">>, <<"n","a","n">>, <<"0">>, <<"-","1",".","5">>, <<"t","w","o">>}

TaskNumbers == {<<"1">>, <<" ","2"," ">>, <<"3">>, <<"0">>, <<"-","1">>, <<"f","i","r","s","t">>}

\* datetime.now() on 2026-11-03: at midnight, at 09:00 and at 23:00
CurrentTimes ==
    {DateTime(strptime(<<"2","0","2","6","-","1","1","-","0","3">>).date, s, 0) : s \in {0, 32400, 82800}}

\* what the text-completion collaborator may return to _call_llm
PrioritizerReplies ==
    {<<"I cannot rank these tasks.">>,
     <<"Sure: ", "[">> \o JsonObjectList \o <<"]", "\n", "Good luck!">>,
     <<"[", "{rank: 1}", "]">>,
     <<"[">> \o JsonObjectList \o <<",", "]">>,
     <<"]", " and ", "[">>}

PrioritizerOutcomes ==
    {Reply(t) : t \in PrioritizerReplies} \cup {NoText, CallFails}

\* the arguments of _calculate_urgency: deadlines around 2026-11-03 and
\* instants of 2026-11-02 and 2026-11-03, to the half second
UrgencyDeadlines == {<<"2","0","2","6","-","1","1","-","0","2">>, <<"2","0","2","6","-","1","1","-","0","3">>, <<"2","0","2","6","-","1","1","-","0","4">>, <<"2","0","2","6","-","1","1","-","1","3">>}

UrgencyTimes ==
    {DateTime(strptime(<<"2","0","2","6","-","1","1","-","0","2">>).date, 86399, us) : us \in {0, 500000}}
    \cup {DateTime(strptime(<<"2","0","2","6","-","1","1","-","0","3">>).date, s, 0) : s \in {0, 32400}}

NoUrgencyCall ==
    [made |-> FALSE, deadline |-> <<>>, current_time |-> NoTime,
     days_until_deadline |-> 0, urgency_score |-> Ratio(0, 1)]

(***************************************************************************)
(* Query Analyzer (src/query_analyzer/main.py): the analysis agent, the    *)
(* response agent and the session loop of QueryAnalyzerSystem.run.         *)
(***************************************************************************)
\* the bound of `question_count < 10`
MaxQuestions == 10

\* the index at which p first occurs in s, or 0
FirstAt(p, s) ==
    LET at == {i \in 1..(Len(s) - Len(p) + 1) : SubSeq(s, i, i + Len(p) - 1) = p}
    IN  IF at = {} THEN 0 ELSE CHOOSE i \in at : \A j \in at : i <= j

\* s.split(sep)[1] of an s that holds sep: the text between the first sep
\* and the next one, or the end
SecondField(s, sep) ==
    LET rest == SubSeq(s, FirstAt(sep, s) + Len(sep), Len(s))
        next == FirstAt(sep, rest)
    IN  IF next = 0 THEN rest ELSE SubSeq(rest, 1, next - 1)

\* what get_response returns: the reply, None when the reply carries no
\* text, or the text of the error
get_response(outcome) ==
    IF outcome.kind = "error" THEN Reply(<<"Error: ">> \o outcome.content)
    ELSE outcome

\* analyze_query(user_input), given what the collaborator produced: the
\* response, whether the `in` test raised (response is None), the flag
\* returned and the agent's refined_query after the call
analyze_query(outcome) ==
    LET response == get_response(outcome)
    IN  IF response.kind # "reply"
        THEN [response |-> response, raised |-> TRUE, is_complete |-> FALSE,
              refined_query |-> <<>>]
        ELSE IF In(<<"A","N","A","L","Y","S","I","S","_","C","O","M","P","L","E","T","E">>, response.content)
        THEN [response |-> response, raised |-> FALSE, is_complete |-> TRUE,
              refined_query |->
                  IF In(<<"-","-","-">>, response.content)
                  THEN strip(SecondField(response.content, <<"-","-","-">>))
                  ELSE response.content]
        ELSE [response |-> response, raised |-> FALSE, is_complete |-> FALSE,
              refined_query |-> <<>>]

\* variant, for comparison: the bound is tested with <=
ContinueAnalysis_Inclusive(complete, count) == ~complete /\ count <= MaxQuestions

\* while not analysis_complete and question_count < 10
ContinueAnalysis(complete, count) == ~complete /\ count < MaxQuestions

(***************************************************************************)
(* Inputs of the query analyzer.                                           *)
(***************************************************************************)
QueryInputs == {<<"q","u","i","t">>, <<" ","Q"," ">>, <<>>, <<"p","l","a","n"," ","a"," ","t","r","i","p">>}

AnswerInputs == {<<"s","k","i","p">>, <<" ","E","X","I","T"," ">>, <<"b","y"," ","t","r","a","i","n">>, <<>>}

ContinueInputs == {<<"y","e","s">>, <<" ","Y"," ">>, <<"n","o">>, <<>>}

AnalyzerReplies ==
    {<<"W","h","a","t"," ","i","s"," ","y","o","u","r"," ","b","u","d","g","e","t","?">>,
     <<"a","n","a","l","y","s","i","s","_","c","o","m","p","l","e","t","e"," ","-","-","-"," ","s","o","o","n">>,
     <<"A","N","A","L","Y","S","I","S","_","C","O","M","P","L","E","T","E","\n","-","-","-","\n","P","u","r","p","o","s","e",":"," ","t","r","i","p","\n","-","-","-">>,
     <<"A","N","A","L","Y","S","I","S","_","C","O","M","P","L","E","T","E">>,
     <<"A","N","A","L","Y","S","I","S","_","C","O","M","P","L","E","T","E","\n","-","-","-","\n"," ","\n","-","-","-">>,
     <<"A","N","A","L","Y","S","I","S","_","C","O","M","P","L","E","T","E"," ","-","-","-">>}

AnalyzerOutcomes ==
    {Reply(t) : t \in AnalyzerReplies}
    \cup {NoText, [kind |-> "error", content |-> <<"C","o","n","n","e","c","t","i","o","n"," ","e","r","r","o","r",".">>]}

(***************************************************************************)
(* The state machine.  pc is "Start" before SmartTerminalAssistant() is     *)
(* called and "Idle" once it is constructed ("ConstructionFailed" when a   *)
(* constructor raised); process_request walks RequestReceived, Planned,    *)
(* Checked, then Blocked / Skipped / AwaitingConfirmation / Executing,     *)
(* then Cancelled / Executed, and ends in Reported.  A client may also     *)
(* call check_safety on its own, which ends in CheckReturned.  loop is     *)
(* "not_running" until interactive_mode is entered, then "prompting" at    *)
(* input("You: "), "handling" inside process_request, and "ended" after    *)
(* the break.                                                              *)
(***************************************************************************)
NoInput == [kind |-> "none", text |-> <<>>]

NoResult ==
    [returned |-> FALSE, original_request |-> <<>>, planned_command |-> <<>>,
     safety_status |-> "none", safety_message |-> <<>>, execution_output |-> <<>>]

Init ==
    /\ api_key \in ApiKeys
    /\ main_report = "none"
    /\ loop = "not_running"
    /\ loop_input = NoInput
    /\ loop_report = "none"
    /\ pc = "Start"
    /\ user_input = <<>>
    /\ interactive = FALSE
    /\ plan_outcome = NotCalled
    /\ planned_command = <<>>
    /\ command = <<>>
    /\ analysis = NotCalled
    /\ llm_calls = 0
    /\ safety_status = "none"
    /\ safety_message = <<>>
    /\ prompts = 0
    /\ confirmation_input = NoInput
    /\ user_approval = "unasked"
    /\ executed = FALSE
    /\ run_result = NoProcess
    /\ final_output = <<>>
    /\ execution_output = <<>>
    /\ result = NoResult
    /\ shown_command = <<>>
    /\ run_command = <<>>
    /\ tasks = <<>>
    /\ menu = "not_started"
    /\ menu_input = NoMenuInput
    /\ use_fallback = FALSE
    /\ current_time = NoTime
    /\ context = NoContext
    /\ llm_response = NotCalled
    /\ prioritized = NoPrioritization
    /\ urgency_call = NoUrgencyCall
    /\ urgency_call_before = NoUrgencyCall
    /\ qa_pc = "not_started"
    /\ user_query = <<>>
    /\ question_count = 0
    /\ analysis_complete = FALSE
    /\ refined_query = <<>>
    /\ qa_response = NotCalled
    /\ user_answer = NoInput
    /\ analyzer_calls = 0
    /\ generator_calls = 0

\* variant, for comparison: the classification call is made before the
\* pre-filter is applied, and its reply is dropped when the pre-filter blocks
CallCheckSafety_ConsultFirst(cmd, outcomes) ==
    LET blocked == PreFilterBlocks(cmd)
    IN  /\ command' = cmd
        /\ llm_calls' = 1
        /\ IF blocked
           THEN /\ analysis' = NotCalled
                /\ safety_status' = BlockedByPattern(cmd).status
                /\ safety_message' = BlockedByPattern(cmd).message
           ELSE \E outcome \in outcomes :
                   LET returned == ConsultCollaborator(outcome)
                   IN  /\ analysis' = outcome
                       /\ safety_status' = returned.status
                       /\ safety_message' = returned.message

\* a call of check_safety(cmd): the pre-filter, then the collaborator
CallCheckSafety(cmd, outcomes) ==
    LET blocked == PreFilterBlocks(cmd)
    IN  /\ command' = cmd
        /\ IF blocked
           THEN /\ analysis' = NotCalled
                /\ llm_calls' = 0
                /\ safety_status' = BlockedByPattern(cmd).status
                /\ safety_message' = BlockedByPattern(cmd).message
           ELSE /\ \E outcome \in outcomes :
                     LET returned == ConsultCollaborator(outcome)
                     IN  /\ analysis' = outcome
                         /\ safety_status' = returned.status
                         /\ safety_message' = returned.message
                /\ llm_calls' = 1

\* assistant = SmartTerminalAssistant() in main: the planner and the checker
\* are constructed, each of which builds its client and then needs the key
Construct ==
    /\ pc = "Start"
    /\ \E client \in ClientOutcomes(api_key) :
         /\ pc' = StartUp(api_key, client).pc
         /\ main_report' = StartUp(api_key, client).report
    /\ UNCHANGED <<api_key, loop, loop_input, loop_report, user_input,
                   interactive, planned_command, command,
                   analysis, llm_calls, safety_status, safety_message, prompts,
                   confirmation_input, user_approval, executed,
                   execution_output, result>>
    /\ UNCHANGED outcome_vars
    /\ UNCHANGED argument_vars
    /\ UNCHANGED <<prioritizer_vars, urgency_vars, analyzer_vars>>

\* process_request(user_input, interactive) is entered by a caller other
\* than interactive_mode
ProcessRequest ==
    /\ pc = "Idle"
    /\ loop = "not_running"
    /\ user_input' \in Requests
    /\ interactive' \in BOOLEAN
    /\ pc' = "RequestReceived"
    /\ UNCHANGED <<api_key, planned_command, command, analysis, llm_calls, safety_status,
                   safety_message, prompts, confirmation_input, user_approval, executed,
                   execution_output, result>>
    /\ UNCHANGED <<session_vars, outcome_vars>>
    /\ UNCHANGED argument_vars
    /\ UNCHANGED <<prioritizer_vars, urgency_vars, analyzer_vars>>

\* planned_command = self.planner.plan_command(user_input)
PlanCommand ==
    /\ pc = "RequestReceived"
    /\ \E outcome \in PlannerOutcomes :
         /\ plan_outcome' = outcome
         /\ planned_command' = plan_command(outcome)
    /\ pc' = "Planned"
    /\ UNCHANGED <<api_key, user_input, interactive, command, analysis, llm_calls,
                   safety_status, safety_message, prompts, confirmation_input, user_approval,
                   executed, execution_output, result>>
    /\ UNCHANGED <<session_vars, run_result, final_output>>
    /\ UNCHANGED argument_vars
    /\ UNCHANGED <<prioritizer_vars, urgency_vars, analyzer_vars>>

\* safety_status, safety_message = self.safety_checker.check_safety(planned_command)
CheckSafety ==
    /\ pc = "Planned"
    /\ CallCheckSafety(planned_command, PipelineOutcomes)
    /\ pc' = "Checked"
    /\ UNCHANGED <<api_key, user_input, interactive, planned_command, prompts,
                   confirmation_input, user_approval, executed, execution_output, result>>
    /\ UNCHANGED <<session_vars, outcome_vars>>
    /\ UNCHANGED argument_vars
    /\ UNCHANGED <<prioritizer_vars, urgency_vars, analyzer_vars>>

\* the if / elif chain on safety_status; the reply text is out of scope by now
Decide ==
    /\ pc = "Checked"
    /\ pc' = ExecutionDecision(safety_status, interactive)
    /\ shown_command' = IF ExecutionDecision(safety_status, interactive)
                             = "AwaitingConfirmation"
                        THEN planned_command ELSE shown_command
    /\ UNCHANGED run_command
    /\ analysis' = [analysis EXCEPT !.content = <<>>]
    /\ UNCHANGED <<api_key, user_input, interactive, planned_command, command, llm_calls,
                   safety_status, safety_message, prompts, confirmation_input, user_approval,
                   executed, execution_output, result>>
    /\ UNCHANGED <<session_vars, outcome_vars>>
    /\ UNCHANGED <<prioritizer_vars, urgency_vars, analyzer_vars>>

\* variant, for comparison: after a refusal the request is planned afresh
AfterConfirmation_Replans(approval) ==
    IF approval = "True" THEN "Executing" ELSE "RequestReceived"

\* variant, for comparison: the command runs whatever the user answered
AfterConfirmation_AlwaysExecutes(approval) == "Executing"

\* what process_request does with the value of _get_user_confirmation
AfterConfirmation(approval) ==
    IF approval = "True" THEN "Executing" ELSE "Cancelled"

\* one prompt of _get_user_confirmation, and the return into process_request
Confirm ==
    /\ pc = "AwaitingConfirmation"
    /\ \E inp \in ConfirmationInputs :
         LET answer == ConfirmationAnswer(inp)
         IN  /\ prompts' = prompts + 1
             /\ confirmation_input' = inp
             /\ IF answer = "again"
                THEN /\ prompts < MaxReprompts
                     /\ UNCHANGED <<pc, user_approval, execution_output>>
                ELSE /\ user_approval' = answer
                     /\ pc' = AfterConfirmation(answer)
                     /\ execution_output' =
                          IF AfterConfirmation(answer) = "Cancelled"
                          THEN CancelledMarker ELSE execution_output
    /\ UNCHANGED <<api_key, user_input, interactive, planned_command, command, analysis,
                   llm_calls, safety_status, safety_message, executed, result>>
    /\ UNCHANGED <<session_vars, outcome_vars>>
    /\ UNCHANGED argument_vars
    /\ UNCHANGED <<prioritizer_vars, urgency_vars, analyzer_vars>>

\* execution_output = self._execute_command(planned_command)
Execute ==
    /\ pc = "Executing"
    /\ executed' = TRUE
    /\ run_command' = planned_command
    /\ UNCHANGED shown_command
    /\ \E outcome \in ProcessOutcomes, cwd \in WorkingDirectories :
         /\ run_result' = outcome
         /\ final_output' = IF outcome.kind = "completed"
                            THEN CompletedOutput(outcome) ELSE <<>>
         /\ execution_output' = _execute_command(planned_command, outcome, cwd)
    /\ pc' = "Executed"
    /\ UNCHANGED <<api_key, user_input, interactive, planned_command, command, analysis,
                   llm_calls, safety_status, safety_message, prompts,
                   confirmation_input, user_approval, result>>
    /\ UNCHANGED <<session_vars, plan_outcome>>
    /\ UNCHANGED <<prioritizer_vars, urgency_vars, analyzer_vars>>

\* return CommandAnalysis(...)
Report ==
    /\ pc \in {"Blocked", "Skipped", "Cancelled", "Executed", "NotExecuted"}
    /\ result' = [returned |-> TRUE,
                  original_request |-> user_input,
                  planned_command |-> planned_command,
                  safety_status |-> safety_status,
                  safety_message |-> safety_message,
                  execution_output |-> execution_output]
    /\ pc' = "Reported"
    /\ UNCHANGED <<api_key, user_input, interactive, planned_command, command, analysis,
                   llm_calls, safety_status, safety_message, prompts,
                   confirmation_input, user_approval, executed, execution_output>>
    /\ UNCHANGED <<session_vars, outcome_vars>>
    /\ UNCHANGED argument_vars
    /\ UNCHANGED <<prioritizer_vars, urgency_vars, analyzer_vars>>

\* a client calls safety_checker.check_safety(command) itself
DirectCheck ==
    /\ pc = "Idle"
    /\ loop = "not_running"
    /\ \E cmd \in CheckerCommands : CallCheckSafety(cmd, CheckerOutcomes)
    /\ pc' = "CheckReturned"
    /\ UNCHANGED <<api_key, user_input, interactive, planned_command, prompts,
                   confirmation_input, user_approval, executed, execution_output, result>>
    /\ UNCHANGED <<session_vars, outcome_vars>>
    /\ UNCHANGED argument_vars
    /\ UNCHANGED <<prioritizer_vars, urgency_vars, analyzer_vars>>

\* assistant.interactive_mode() is entered: the banner, then the first prompt
EnterInteractiveMode ==
    /\ pc = "Idle"
    /\ loop = "not_running"
    /\ loop' = "prompting"
    /\ UNCHANGED <<api_key, main_report, loop_input, loop_report, pc, user_input,
                   interactive, planned_command, command, analysis, llm_calls,
                   safety_status, safety_message, prompts, confirmation_input,
                   user_approval, executed, execution_output, result>>
    /\ UNCHANGED outcome_vars
    /\ UNCHANGED argument_vars
    /\ UNCHANGED <<prioritizer_vars, urgency_vars, analyzer_vars>>

\* one pass of the while loop of interactive_mode, up to the call of
\* process_request(user_input) or to the next pass
ReadInput ==
    /\ pc = "Idle"
    /\ loop = "prompting"
    /\ \E inp \in SessionInputs :
         LET decision == LoopDecision(inp)
         IN  /\ loop_input' = inp
             /\ loop_report' = CASE decision = "goodbye" -> "Goodbye"
                                 [] decision = "error" -> "Error"
                                 [] OTHER -> loop_report
             /\ loop' = CASE decision = "goodbye" -> "ended"
                          [] decision = "process_request" -> "handling"
                          [] OTHER -> "prompting"
             /\ pc' = IF decision = "process_request" THEN "RequestReceived"
                      ELSE "Idle"
             /\ user_input' = IF decision = "process_request"
                              THEN strip(inp.text) ELSE user_input
             /\ interactive' = IF decision = "process_request"
                               THEN TRUE ELSE interactive
    /\ UNCHANGED <<api_key, main_report, planned_command, command, analysis,
                   llm_calls, safety_status, safety_message, prompts,
                   confirmation_input, user_approval, executed,
                   execution_output, result>>
    /\ UNCHANGED outcome_vars
    /\ UNCHANGED argument_vars
    /\ UNCHANGED <<prioritizer_vars, urgency_vars, analyzer_vars>>

\* the caller is done with what was returned; nothing of a call outlives it.
\* In interactive_mode the returned CommandAnalysis is dropped and the loop
\* prompts again
Discard ==
    /\ pc \in {"Reported", "CheckReturned"}
    /\ pc' = "Idle"
    /\ loop' = IF loop = "handling" THEN "prompting" ELSE loop
    /\ UNCHANGED <<api_key, main_report, loop_input, loop_report>>
    /\ user_input' = <<>>
    /\ interactive' = FALSE
    /\ plan_outcome' = NotCalled
    /\ planned_command' = <<>>
    /\ command' = <<>>
    /\ analysis' = NotCalled
    /\ llm_calls' = 0
    /\ safety_status' = "none"
    /\ safety_message' = <<>>
    /\ prompts' = 0
    /\ confirmation_input' = NoInput
    /\ user_approval' = "unasked"
    /\ executed' = FALSE
    /\ run_result' = NoProcess
    /\ final_output' = <<>>
    /\ execution_output' = <<>>
    /\ result' = NoResult
    /\ shown_command' = <<>>
    /\ run_command' = <<>>
    /\ UNCHANGED <<prioritizer_vars, urgency_vars, analyzer_vars>>

Next ==
    \/ Construct
    \/ ProcessRequest
    \/ PlanCommand
    \/ CheckSafety
    \/ Decide
    \/ Confirm
    \/ Execute
    \/ Report
    \/ DirectCheck
    \/ EnterInteractiveMode
    \/ ReadInput
    \/ Discard

Spec == Init /\ [][Next]_vars

\* the steps inside one call of process_request
PipelineStep ==
    PlanCommand \/ CheckSafety \/ Decide \/ Confirm \/ Execute \/ Report

\* a call of process_request goes on: its collaborators return or raise, the
\* process ends or is timed out, and the user answers the prompt
FairSpec == Spec /\ WF_vars(PipelineStep)

(***************************************************************************)
(* plan_command on replies that carry code fences.                         *)
(***************************************************************************)
FencePieces ==
    {<<Backtick,Backtick,Backtick>>, <<Backtick,Backtick,Backtick,"b","a","s","h">>, <<Backtick,Backtick,Backtick,"s","h">>, <<Backtick,Backtick,Backtick,"p","o","w","e","r","s","h","e","l","l">>, <<Backtick,Backtick,Backtick,"c","m","d">>,
     <<"\n","l","s"," ","-","l","a","\n">>, <<Backtick>>, <<" ">>}

\* text the planning collaborator may return around a command
FencedReplies == Compose(FencePieces, MaxFencePieces)

\* planned_command = self.planner.plan_command(user_input), on such a reply
PlanFenced ==
    /\ pc = "RequestReceived"
    /\ \E text \in FencedReplies :
         /\ plan_outcome' = Reply(text)
         /\ planned_command' = plan_command(Reply(text))
    /\ pc' = "Planned"
    /\ UNCHANGED <<api_key, user_input, interactive, command, analysis, llm_calls,
                   safety_status, safety_message, prompts, confirmation_input, user_approval,
                   executed, execution_output, result>>
    /\ UNCHANGED <<session_vars, run_result, final_output>>
    /\ UNCHANGED argument_vars
    /\ UNCHANGED <<prioritizer_vars, urgency_vars, analyzer_vars>>

PlannerNext ==
    \/ Construct
    \/ ProcessRequest
    \/ PlanFenced

PlannerSpec == Init /\ [][PlannerNext]_vars

(***************************************************************************)
(* The task prioritizer's menu loop.  menu is "not_started" before         *)
(* TaskPrioritizerCoordinator() is constructed, "running" while run() is   *)
(* at its menu, and "exited" after choice 5.  One action is one pass of    *)
(* the loop: the choice and the handler it selects.  What _prioritize_tasks *)
(* computed is in scope until the next pass.                               *)
(***************************************************************************)
\* coordinator = TaskPrioritizerCoordinator(); coordinator.run()
StartPrioritizer ==
    /\ menu = "not_started"
    /\ menu' = "running"
    /\ \E installed \in BOOLEAN :
         use_fallback' = PrioritizerFallback(api_key, installed)
    /\ UNCHANGED <<tasks, menu_input, current_time, context, llm_response, prioritized>>
    /\ UNCHANGED <<assistant_vars, urgency_vars, analyzer_vars>>

\* choice '1': self._add_task()
AddTask ==
    /\ menu = "running"
    /\ Len(tasks) < MaxTasks
    /\ \E choice \in MenuChoices, name \in TaskNames,
          deadline \in Deadlines \cup {NotRead}, estimate \in Estimates \cup {NotRead} :
         /\ strip(choice) = <<"1">>
         /\ deadline = NotRead <=> strip(name) = <<>>
         /\ estimate = NotRead <=>
                (deadline = NotRead \/ strptime(strip(deadline)).kind = "ValueError")
         /\ menu_input' = [NoMenuInput EXCEPT !.choice = choice, !.name = name,
                              !.deadline = deadline, !.estimate = estimate]
         /\ tasks' = _add_task(tasks, name, deadline, estimate)
    /\ current_time' = NoTime
    /\ context' = NoContext
    /\ llm_response' = NotCalled
    /\ prioritized' = NoPrioritization
    /\ UNCHANGED <<menu, use_fallback>>
    /\ UNCHANGED <<assistant_vars, urgency_vars, analyzer_vars>>

\* choice '2': self._prioritize_tasks()
PrioritizeTasks ==
    /\ menu = "running"
    /\ \E choice \in MenuChoices :
         /\ strip(choice) = <<"2">>
         /\ menu_input' = [NoMenuInput EXCEPT !.choice = choice]
    /\ IF tasks = <<>>
       THEN /\ current_time' = NoTime
            /\ context' = NoContext
            /\ llm_response' = NotCalled
            /\ prioritized' = NoPrioritization
       ELSE \E now \in CurrentTimes,
               outcome \in IF use_fallback THEN {NotCalled} ELSE PrioritizerOutcomes :
              /\ current_time' = now
              /\ context' = collect_context(tasks, now)
              /\ llm_response' = outcome
              /\ prioritized' =
                    prioritize_tasks(use_fallback, collect_context(tasks, now), outcome)
    /\ UNCHANGED <<tasks, menu, use_fallback>>
    /\ UNCHANGED <<assistant_vars, urgency_vars, analyzer_vars>>

\* choice '3': self._mark_complete()
MarkComplete ==
    /\ menu = "running"
    /\ \E choice \in MenuChoices, number \in TaskNumbers \cup {NotRead} :
         /\ strip(choice) = <<"3">>
         /\ number = NotRead <=> tasks = <<>>
         /\ menu_input' = [NoMenuInput EXCEPT !.choice = choice, !.number = number]
         /\ tasks' = IF tasks = <<>> THEN tasks ELSE _mark_complete(tasks, number)
    /\ current_time' = NoTime
    /\ context' = NoContext
    /\ llm_response' = NotCalled
    /\ prioritized' = NoPrioritization
    /\ UNCHANGED <<menu, use_fallback>>
    /\ UNCHANGED <<assistant_vars, urgency_vars, analyzer_vars>>

\* choice '4': self._view_all_tasks()
ViewAllTasks ==
    /\ menu = "running"
    /\ \E choice \in MenuChoices :
         /\ strip(choice) = <<"4">>
         /\ menu_input' = [NoMenuInput EXCEPT !.choice = choice]
    /\ current_time' = NoTime
    /\ context' = NoContext
    /\ llm_response' = NotCalled
    /\ prioritized' = NoPrioritization
    /\ UNCHANGED <<tasks, menu, use_fallback>>
    /\ UNCHANGED <<assistant_vars, urgency_vars, analyzer_vars>>

\* choice '5': break
ExitMenu ==
    /\ menu = "running"
    /\ \E choice \in MenuChoices :
         /\ strip(choice) = <<"5">>
         /\ menu_input' = [NoMenuInput EXCEPT !.choice = choice]
    /\ menu' = "exited"
    /\ current_time' = NoTime
    /\ context' = NoContext
    /\ llm_response' = NotCalled
    /\ prioritized' = NoPrioritization
    /\ UNCHANGED <<tasks, use_fallback>>
    /\ UNCHANGED <<assistant_vars, urgency_vars, analyzer_vars>>

\* any other choice: "Invalid choice. Please try again."
InvalidChoice ==
    /\ menu = "running"
    /\ \E choice \in MenuChoices :
         /\ strip(choice) \notin {<<"1">>, <<"2">>, <<"3">>, <<"4">>, <<"5">>}
         /\ menu_input' = [NoMenuInput EXCEPT !.choice = choice]
    /\ current_time' = NoTime
    /\ context' = NoContext
    /\ llm_response' = NotCalled
    /\ prioritized' = NoPrioritization
    /\ UNCHANGED <<tasks, menu, use_fallback>>
    /\ UNCHANGED <<assistant_vars, urgency_vars, analyzer_vars>>

PrioritizerNext ==
    \/ StartPrioritizer
    \/ AddTask
    \/ PrioritizeTasks
    \/ MarkComplete
    \/ ViewAllTasks
    \/ ExitMenu
    \/ InvalidChoice

PrioritizerSpec == Init /\ [][PrioritizerNext]_vars

(***************************************************************************)
(* _calculate_urgency on its own: two successive calls, each with a task   *)
(* and a current time.                                                     *)
(***************************************************************************)
\* self._calculate_urgency(task, current_time)
CalculateUrgency ==
    /\ \E deadline \in UrgencyDeadlines, now \in UrgencyTimes :
         LET task == [name |-> <<"r","e","p","o","r","t">>, deadline |-> deadline, estimate |-> Finite(20)]
         IN  urgency_call' =
                [made |-> TRUE,
                 deadline |-> deadline,
                 current_time |-> now,
                 days_until_deadline |-> _days_remaining(task, now),
                 urgency_score |-> _calculate_urgency(task, now)]
    /\ urgency_call_before' = urgency_call
    /\ UNCHANGED <<assistant_vars, prioritizer_vars, analyzer_vars>>

UrgencySpec == Init /\ [][CalculateUrgency]_vars

(***************************************************************************)
(* The query analyzer's sessions.  qa_pc is "not_started" before main,     *)
(* "session_prompt" at the input() that opens a session, "analysis_loop"   *)
(* at the test of the while loop of phase 1, "phase2" before               *)
(* generate_response, "continue_prompt" at the question that follows it,   *)
(* "ended" after a break, "no_key" when main returned for want of a key    *)
(* and "failed" when an exception reached main.                            *)
(***************************************************************************)
\* main(): the key check, then system.run()
StartAnalyzer ==
    /\ qa_pc = "not_started"
    /\ qa_pc' = IF api_key \in {"", None} THEN "no_key" ELSE "session_prompt"
    /\ UNCHANGED <<user_query, question_count, analysis_complete, refined_query,
                   qa_response, user_answer, analyzer_calls, generator_calls>>
    /\ UNCHANGED <<assistant_vars, prioritizer_vars, urgency_vars>>

\* user_query = input("You: ").strip() and what follows up to the while loop
ReadQuery ==
    /\ qa_pc = "session_prompt"
    /\ \E text \in QueryInputs :
         /\ user_query' = strip(text)
         /\ qa_pc' = IF lower(strip(text)) \in {<<"q","u","i","t">>, <<"e","x","i","t">>, <<"q">>} THEN "ended"
                     ELSE IF strip(text) = <<>> THEN "session_prompt"
                     ELSE "analysis_loop"
    /\ question_count' = 0
    /\ analysis_complete' = FALSE
    /\ refined_query' = <<>>
    /\ qa_response' = NotCalled
    /\ user_answer' = NoInput
    /\ analyzer_calls' = 0
    /\ generator_calls' = 0
    /\ UNCHANGED <<assistant_vars, prioritizer_vars, urgency_vars>>

\* one pass of the while loop of phase 1
AnalyzeStep ==
    /\ qa_pc = "analysis_loop"
    /\ ContinueAnalysis(analysis_complete, question_count)
    /\ \E answer \in IF question_count = 0 THEN {NoInput}
                     ELSE {[kind |-> "line", text |-> t] : t \in AnswerInputs},
          outcome \in AnalyzerOutcomes :
         /\ user_answer' = answer
         /\ IF /\ answer.kind = "line"
               /\ lower(strip(answer.text)) \in {<<"q","u","i","t">>, <<"e","x","i","t">>, <<"s","k","i","p">>}
            THEN \* break, then `if not self.agent1.refined_query: continue`
                 /\ qa_pc' = IF refined_query = <<>> THEN "session_prompt" ELSE "phase2"
                 /\ UNCHANGED <<question_count, analysis_complete, refined_query,
                                qa_response, analyzer_calls>>
            ELSE LET returned == analyze_query(outcome)
                 IN  /\ analyzer_calls' = analyzer_calls + 1
                     /\ qa_response' = returned.response
                     /\ refined_query' = returned.refined_query
                     /\ IF returned.raised
                        THEN /\ qa_pc' = "failed"
                             /\ UNCHANGED <<question_count, analysis_complete>>
                        ELSE /\ qa_pc' = "analysis_loop"
                             /\ analysis_complete' = returned.is_complete
                             /\ question_count' = question_count + 1
    /\ UNCHANGED <<user_query, generator_calls>>
    /\ UNCHANGED <<assistant_vars, prioritizer_vars, urgency_vars>>

\* the while loop has ended by its test: `if not self.agent1.refined_query`
AfterAnalysis ==
    /\ qa_pc = "analysis_loop"
    /\ ~ContinueAnalysis(analysis_complete, question_count)
    /\ qa_pc' = IF refined_query = <<>> THEN "session_prompt" ELSE "phase2"
    /\ UNCHANGED <<user_query, question_count, analysis_complete, refined_query,
                   qa_response, user_answer, analyzer_calls, generator_calls>>
    /\ UNCHANGED <<assistant_vars, prioritizer_vars, urgency_vars>>

\* final_response = self.agent2.generate_response(self.agent1.refined_query)
GenerateResponse ==
    /\ qa_pc = "phase2"
    /\ generator_calls' = generator_calls + 1
    /\ qa_pc' = "continue_prompt"
    /\ UNCHANGED <<user_query, question_count, analysis_complete, refined_query,
                   qa_response, user_answer, analyzer_calls>>
    /\ UNCHANGED <<assistant_vars, prioritizer_vars, urgency_vars>>

\* continue_choice = input(...).strip().lower()
ContinueChoice ==
    /\ qa_pc = "continue_prompt"
    /\ \E text \in ContinueInputs :
         qa_pc' = IF lower(strip(text)) \in {<<"y","e","s">>, <<"y">>} THEN "session_prompt"
                  ELSE "ended"
    /\ UNCHANGED <<user_query, question_count, analysis_complete, refined_query,
                   qa_response, user_answer, analyzer_calls, generator_calls>>
    /\ UNCHANGED <<assistant_vars, prioritizer_vars, urgency_vars>>

AnalyzerNext ==
    \/ StartAnalyzer
    \/ ReadQuery
    \/ AnalyzeStep
    \/ AfterAnalysis
    \/ GenerateResponse
    \/ ContinueChoice

AnalyzerSpec == Init /\ [][AnalyzerNext]_vars

(***************************************************************************)
(* Properties.                                                             *)
(***************************************************************************)
\* check_safety has just returned and the reply it parsed is still at hand
JustChecked == pc \in {"Checked", "CheckReturned"}

\* the explanation of the except branch, as the source spells it
CouldNotVerify ==
    <<"CAUTION: Could not verify safety due to API error. Execution blocked by default.">>

\* the first line of the reply as received, and of the reply once trimmed
RawFirstLine(content) == SplitFirstLine(content)[1]
TrimmedFirstLine(content) == SplitFirstLine(strip(content))[1]

\* the first line is the word SAFE and nothing else
StatesSafe(content) == upper(strip(TrimmedFirstLine(content))) = <<"S","A","F","E">>

\* the deny-list entries with their letter case folded
FoldedEntries == {lower(DANGEROUS_PATTERNS[i]) : i \in 1..Len(DANGEROUS_PATTERNS)}

\* some deny-list entry occurs in the command, letter case ignored
ContainsEntryAnyCase(cmd) ==
    LET folded == lower(cmd)
    IN  \E p \in FoldedEntries : In(p, folded)

\* read-only command names
ReadOnlyNames == {<<"l","s">>, <<"p","w","d">>, <<"p","s">>, <<"e","c","h","o">>}

FirstToken(cmd) == IF Tokens(cmd) = <<>> THEN <<>> ELSE Tokens(cmd)[1]

AllowListed(cmd) ==
    lower(FirstToken(cmd)) \in ReadOnlyNames /\ ~ContainsEntryAnyCase(cmd)

\* the user's last input at the confirmation prompt
Affirmative(inp) ==
    inp.kind = "line" /\ lower(strip(inp.text)) \in {<<"y","e","s">>, <<"y">>}
Declined(inp) ==
    \/ inp.kind \in {"EOFError", "KeyboardInterrupt"}
    \/ inp.kind = "line" /\ lower(strip(inp.text)) \in {<<"n","o">>, <<"n">>}

\* text that may stand on the lines after the first
LaterTexts == {<<"S","A","F","E">>, <<"U","n","s","a","f","e">>, <<"U","N","K","N","O","W","N">>}

(* C1: process_request invokes _execute_command only if the verdict that   *)
(* check_safety returned for the request is SAFE, in interactive and in    *)
(* non-interactive mode: executed => verdict = SAFE.                       *)
C1_ExecutedOnlyIfSafe ==
    (executed \/ pc \in {"Executing", "Executed"}) => safety_status = SAFE

C1_Witness ==
    pc = "Executed" /\ executed /\ ~interactive /\ safety_status = SAFE

(* C2: a reply whose first line does not state the verdict SAFE as such    *)
(* (UNKNOWN, SAFE inside a longer word, a negated phrase, any other text)  *)
(* is never resolved to SAFE by check_safety.                              *)
C2_AmbiguousNeverSafe ==
    (JustChecked /\ analysis.kind = "reply" /\ ~StatesSafe(analysis.content))
        => safety_status # SAFE

(* C3: when the classification call fails (it raises, or its reply holds   *)
(* no text) check_safety returns UNKNOWN with the explanation that safety  *)
(* could not be verified and execution is blocked by default.              *)
C3_FailureYieldsUnknown ==
    analysis.kind \in {"error", "no_text"}
        => safety_status = UNKNOWN /\ safety_message = CouldNotVerify

C3_Witness ==
    JustChecked /\ analysis.kind = "no_text" /\ safety_status = UNKNOWN

(* C4: every command that contains an entry of DANGEROUS_PATTERNS, in any  *)
(* letter case and with any blank padding, is judged UNSAFE.               *)
C4_DenyListEntryAlwaysUnsafe ==
    (JustChecked /\ ContainsEntryAnyCase(command)) => safety_status = UNSAFE

(* C5: the pre-filter runs before the collaborator and is final: a command *)
(* whose lower-cased text matches a pattern is UNSAFE without any          *)
(* classification call, whatever the collaborator would have replied, and  *)
(* a call is made only, and always, for a command that passes.             *)
C5_PreFilterFirst ==
    IF PreFilterBlocks(command)
    THEN safety_status = UNSAFE /\ llm_calls = 0 /\ analysis = NotCalled
    ELSE JustChecked => llm_calls = 1 /\ analysis # NotCalled

C5_Witness ==
    pc = "Checked" /\ PreFilterBlocks(command) /\ llm_calls = 0
    /\ safety_status = UNSAFE

(* C6: in interactive mode _execute_command is invoked only after          *)
(* _get_user_confirmation returned True on an affirmative answer; on no,   *)
(* interrupt or end of input the command is not executed and the analysis  *)
(* carries '[Execution cancelled by user]'.                                *)
C6_ExecutedOnlyIfConfirmed ==
    interactive =>
        /\ (executed \/ pc \in {"Executing", "Executed"})
              => user_approval = "True" /\ Affirmative(confirmation_input)
        /\ Declined(confirmation_input) => user_approval = "False"
        /\ user_approval = "False"
              => /\ ~executed
                 /\ pc \in {"Cancelled", "Reported"}
                 /\ execution_output = CancelledMarker
                 /\ pc = "Reported" => result.execution_output = CancelledMarker

C6_Witness ==
    pc = "Executed" /\ interactive /\ executed /\ user_approval = "True"

(* C7: on UNSAFE and on UNKNOWN alike process_request goes straight to the *)
(* blocked outcome: no confirmation prompt, no execution, and an empty     *)
(* execution_output in the returned CommandAnalysis.                       *)
C7_BlockedWithoutAsking ==
    safety_status \in {UNSAFE, UNKNOWN} =>
        /\ pc \in {"Checked", "Blocked", "Skipped", "Reported", "CheckReturned"}
        /\ prompts = 0
        /\ confirmation_input = NoInput
        /\ user_approval = "unasked"
        /\ ~executed
        /\ execution_output = <<>>
        /\ pc = "Reported" => result.execution_output = <<>>

C7_Witness ==
    pc = "Reported" /\ safety_status = UNKNOWN /\ result.returned
    /\ result.execution_output = <<>>

(* C8: when the collaborator is not available for a command that passes    *)
(* the deny-list, the checker returns UNKNOWN, the coordinator skips       *)
(* execution, and the reported safety message says that safety could not   *)
(* be verified; when no collaborator is configured no assistant exists,    *)
(* so that no command is ever judged SAFE or executed.                     *)
C8_FailsClosedWithoutCollaborator ==
    /\ ~KeyConfigured(api_key)
          => /\ pc \in {"Start", "ConstructionFailed"}
             /\ safety_status # SAFE
             /\ ~executed
    /\ analysis.kind = "error" =>
          /\ ~PreFilterBlocks(command)
          /\ safety_status = UNKNOWN
          /\ safety_message = CouldNotVerify
          /\ ~executed
          /\ pc \notin {"AwaitingConfirmation", "Executing", "Executed", "Cancelled"}
          /\ pc = "Reported"
                => /\ result.safety_status = UNKNOWN
                   /\ result.safety_message = CouldNotVerify
                   /\ result.execution_output = <<>>

C8_Witness ==
    /\ pc = "Reported"
    /\ analysis.kind = "error"
    /\ planned_command = <<"f","r","o","b","n","i","c","a","t","e"," ","-","-","w","i","p","e">>
    /\ result.safety_status = UNKNOWN
    /\ result.safety_message = CouldNotVerify

C10_FirstLineOfReplyDecides ==
    (JustChecked /\ analysis.kind = "reply") =>
        /\ In(<<"U","N","S","A","F","E">>, upper(RawFirstLine(analysis.content)))
              => safety_status = UNSAFE
        /\ \A later \in LaterTexts :
              LET other == RawFirstLine(analysis.content) \o <<"\n">> \o later
              IN  RawFirstLine(other) = RawFirstLine(analysis.content)
                     => ParseAnalysis(other).status = safety_status

(* C10, amended: the reply is trimmed first, and only the first line of    *)
(* the trimmed reply counts, letter case ignored and UNSAFE before SAFE;   *)
(* replies that agree on that line get the same verdict whatever follows.  *)
C10_FirstLineOfTrimmedReplyDecides ==
    (JustChecked /\ analysis.kind = "reply") =>
        LET first_line == TrimmedFirstLine(analysis.content)
        IN  /\ In(<<"U","N","S","A","F","E">>, upper(first_line)) => safety_status = UNSAFE
            /\ \A later \in LaterTexts :
                  LET other == first_line \o <<"\n">> \o later
                  IN  TrimmedFirstLine(other) = first_line
                         => ParseAnalysis(other).status = safety_status

C10_Witness ==
    /\ pc = "CheckReturned"
    /\ analysis.kind = "reply"
    /\ Len(SplitFirstLine(strip(analysis.content))) = 2
    /\ In(<<"S","A","F","E">>, upper(SplitFirstLine(strip(analysis.content))[2]))
    /\ safety_status = UNSAFE

(* C11: every call of process_request reaches Reported and returns its     *)
(* CommandAnalysis, whatever the planner, the checker, the user at the     *)
(* confirmation prompt and the executed process do.                        *)
C11_AlwaysReported ==
    (pc = "RequestReceived") ~> (pc = "Reported" /\ result.returned)

C11_Witness ==
    /\ pc = "Reported"
    /\ result.returned
    /\ interactive
    /\ plan_outcome.kind = "error"
    /\ run_result.kind = "timeout"

(* C12: _get_user_confirmation returns True only on yes / y and False     *)
(* only on no / n (letter case and surrounding blanks ignored), on an      *)
(* interrupt or on end of input; after any other answer it has not         *)
(* returned: it is still at its prompt and nothing is decided.             *)
C12_ReturnsOnlyOnRecognisedAnswer ==
    /\ user_approval = "True" => Affirmative(confirmation_input)
    /\ user_approval = "False" => Declined(confirmation_input)
    /\ (prompts > 0 /\ ~Affirmative(confirmation_input)
                    /\ ~Declined(confirmation_input))
          => /\ pc = "AwaitingConfirmation"
             /\ user_approval = "unasked"
             /\ ~executed
             /\ execution_output = <<>>

C12_Witness ==
    /\ pc = "AwaitingConfirmation"
    /\ prompts > 0
    /\ confirmation_input = [kind |-> "line", text |-> <<"m","a","y","b","e">>]
    /\ user_approval = "unasked"

(* C13: when the planning collaborator fails (the call raises, or the      *)
(* reply holds no text) plan_command returns the diagnostic echo command   *)
(* that embeds the error text, and process_request treats it as any other  *)
(* planned command: it is the command check_safety judges, and it runs     *)
(* only on SAFE and, in interactive mode, only after a yes.                *)
C13_PlannerFailureYieldsCheckedEcho ==
    plan_outcome.kind \in {"error", "no_text"} =>
        /\ StartsWith(planned_command, <<"e","c","h","o"," ","'","E","r","r","o","r",":"," ","C","o","u","l","d"," ","n","o","t"," ","p","l","a","n"," ","c","o","m","m","a","n","d"," ","-"," ">>)
        /\ planned_command[Len(planned_command)] = "'"
        /\ plan_outcome.kind = "error" => In(plan_outcome.content, planned_command)
        /\ pc # "Planned" => /\ command = planned_command
                             /\ safety_status \in SafetyStatus
        /\ (executed \/ pc = "Executing")
              => /\ safety_status = SAFE
                 /\ interactive => user_approval = "True"
        /\ pc = "Reported" => result.returned
                              /\ result.planned_command = planned_command

C13_Witness ==
    /\ pc = "Reported"
    /\ plan_outcome.kind = "no_text"
    /\ executed
    /\ interactive
    /\ user_approval = "True"

(* C14: when the process runs into the 10-second bound the result of       *)
(* _execute_command is exactly '[Error]: Command timed out after 10        *)
(* seconds', on any other execution failure it is '[Error]: ' followed by  *)
(* the error text, and process_request returns its CommandAnalysis with    *)
(* that text as execution_output.                                          *)
C14_ExecutionFailureYieldsDiagnostic ==
    /\ run_result.kind = "timeout"
          => execution_output = <<"[Error]: Command timed out after 10 seconds">>
    /\ run_result.kind = "error"
          => execution_output = <<"[Error]: ">> \o run_result.error
    /\ run_result.kind \in {"timeout", "error"}
          => /\ pc \in {"Executed", "Reported"}
             /\ pc = "Reported" => /\ result.returned
                                   /\ result.execution_output = execution_output

C14_Witness ==
    /\ pc = "Reported"
    /\ run_result.kind = "timeout"
    /\ result.returned
    /\ result.execution_output = <<"[Error]: Command timed out after 10 seconds">>

(* C15: without OPENAI_API_KEY the construction of the assistant fails,    *)
(* main reports the configuration error with the instructions for the      *)
(* .env file, and nothing is ever planned, checked, asked, executed or     *)
(* read by the interactive loop.                                           *)
C15_MissingKeyReportedWithRemediation ==
    ~KeyConfigured(api_key) =>
        /\ pc \in {"Start", "ConstructionFailed"}
        /\ loop = "not_running"
        /\ llm_calls = 0 /\ prompts = 0 /\ ~executed
        /\ planned_command = <<>> /\ safety_status = "none"
        /\ pc = "ConstructionFailed"
              => main_report = "Configuration Error, with how to set OPENAI_API_KEY in .env"

(* C16: an error other than an interrupt that is raised during a pass of   *)
(* the loop of interactive_mode is caught and printed and the loop is at   *)
(* its prompt again; the session has not ended, and a later request is     *)
(* processed.                                                              *)
C16_ErrorKeepsSession ==
    /\ loop_input.kind = "EOFError"
          => loop = "prompting" /\ loop_report = "Error" /\ pc = "Idle"
    /\ loop_report = "Error" => loop \in {"prompting", "handling"}

C16_Witness ==
    /\ loop_report = "Error"
    /\ loop = "handling"
    /\ pc = "Reported"
    /\ result.returned
    /\ result.original_request = <<"e","x","i","t"," ","n","o","w">>

\* the inputs on which the session is to end
ExitInput(inp) ==
    \/ inp.kind = "KeyboardInterrupt"
    \/ inp.kind = "line" /\ lower(strip(inp.text)) \in {<<"e","x","i","t">>, <<"q","u","i","t">>, <<"q">>}

\* nothing of a request is in progress or left over
NothingProcessed ==
    /\ pc = "Idle"
    /\ planned_command = <<>> /\ command = <<>>
    /\ llm_calls = 0 /\ safety_status = "none"
    /\ prompts = 0 /\ ~executed /\ ~result.returned

(* C17: a pass of the loop of interactive_mode ends the session exactly    *)
(* when the input is exit, quit or q (any letter case, surrounding blanks  *)
(* ignored) or an interrupt, and then nothing is planned, checked or       *)
(* executed; every other non-empty input is handed to process_request,     *)
(* trimmed and with interactive = True, and when that call has returned    *)
(* the loop is at its prompt again.                                        *)
C17_SessionEndsExactlyOnExit ==
    [][/\ loop = "prompting" =>
            /\ loop' = "ended" <=> ExitInput(loop_input')
            /\ loop' = "ended" => NothingProcessed' /\ loop_report' = "Goodbye"
            /\ (/\ loop_input'.kind = "line"
                /\ strip(loop_input'.text) # <<>>
                /\ ~ExitInput(loop_input'))
                  => /\ loop' = "handling"
                     /\ pc' = "RequestReceived"
                     /\ user_input' = strip(loop_input'.text)
                     /\ interactive'
       /\ loop = "handling" =>
            /\ loop' \in {"handling", "prompting"}
            /\ pc = "Reported" => loop' = "prompting"
       /\ loop = "ended" => loop' = "ended"]_vars

C17_Witness ==
    /\ loop = "ended"
    /\ loop_input = [kind |-> "line", text |-> <<" ","Q","U","I","T"," ">>]
    /\ NothingProcessed

\* the result of _execute_command shows text of stderr
ShowsStderr(output) == In(<<"[","s","t","d","e","r","r","]",":"," ">>, output)

(* C18: when the process completes, the result of _execute_command holds   *)
(* the text of stderr exactly when the exit status is non-zero and stderr  *)
(* is non-empty after trimming; with exit status zero it holds no stderr   *)
(* text, whatever stderr held.                                             *)
C18_StderrOnlyOnFailure ==
    (pc \in {"Executed", "Reported"} /\ run_result.kind = "completed") =>
        LET stderr == strip(run_result.stderr)
        IN  /\ ShowsStderr(execution_output)
                  <=> (run_result.returncode # 0 /\ stderr # <<>>)
            /\ ShowsStderr(final_output) <=> ShowsStderr(execution_output)
            /\ ShowsStderr(execution_output)
                  => In(<<"[","s","t","d","e","r","r","]",":"," ">> \o stderr, execution_output)
            /\ (run_result.returncode = 0 /\ stderr # <<>>)
                  => ~In(stderr, execution_output)

C18_Witness ==
    /\ pc = "Executed"
    /\ run_result.kind = "completed"
    /\ run_result.returncode = 0
    /\ run_result.stderr = <<"n","o","t"," ","f","o","u","n","d","\n">>
    /\ ~ShowsStderr(execution_output)

(* C19, as claimed: whenever the captured stdout is empty or blank, the    *)
(* text _execute_command computes before the enhancement is the marker     *)
(* '[Command executed successfully with no output]', for every exit status *)
(* and every stderr.                                                       *)
C19_BlankStdoutGivesMarker ==
    (pc \in {"Executed", "Reported"} /\ run_result.kind = "completed"
        /\ strip(run_result.stdout) = <<>>)
        => final_output = <<"[Command executed successfully with no output]">>

(* C19, amended: the marker stands for the text exactly when stdout        *)
(* together with the appended stderr text is blank, that is when stdout is *)
(* blank and the exit status is zero or stderr is blank; with a blank      *)
(* stdout, a non-zero exit status and a non-blank stderr the text is       *)
(* stdout followed by the stderr line.                                     *)
C19_BlankCombinedOutputGivesMarker ==
    (pc \in {"Executed", "Reported"} /\ run_result.kind = "completed") =>
        LET stderr == strip(run_result.stderr)
            failed == run_result.returncode # 0 /\ stderr # <<>>
        IN  /\ final_output = <<"[Command executed successfully with no output]">>
                  <=> (strip(run_result.stdout) = <<>> /\ ~failed)
            /\ (strip(run_result.stdout) = <<>> /\ failed)
                  => final_output = run_result.stdout \o <<"\n","[","s","t","d","e","r","r","]",":"," ">> \o stderr

C19_Witness ==
    /\ pc = "Executed"
    /\ run_result.kind = "completed"
    /\ run_result.stdout = <<" ","\n">>
    /\ run_result.returncode = 1
    /\ run_result.stderr = <<" ">>
    /\ final_output = <<"[Command executed successfully with no output]">>

(* C20: whatever path check_safety takes (deny-list match, a reply of any  *)
(* content, one-line replies included, a failed call) it returns one of    *)
(* SAFE, UNSAFE, UNKNOWN together with a non-empty explanation; after a    *)
(* reply the explanation that follows the verdict label is not blank.      *)
C20_VerdictAndExplanation ==
    (safety_status # "none" \/ JustChecked) =>
        /\ safety_status \in {SAFE, UNSAFE, UNKNOWN}
        /\ safety_message # <<>>
        /\ strip(safety_message) # <<>>
        /\ analysis.kind = "reply"
              => /\ safety_message[1] \in {"SAFE: ", "BLOCKED: ", "CAUTION: "}
                 /\ strip(Tail(safety_message)) # <<>>

C20_Witness ==
    /\ pc = "CheckReturned"
    /\ analysis = Reply(<<"s","a","f","e">>)
    /\ safety_status = SAFE
    /\ safety_message = <<"SAFE: ", "No explanation provided.">>

\* the stages of one process_request, and the stage each may be followed by
StageOrder ==
    {<<"RequestReceived", "Planned">>, <<"Planned", "Checked">>,
     <<"Checked", "Blocked">>, <<"Checked", "Skipped">>,
     <<"Checked", "AwaitingConfirmation">>, <<"Checked", "Executing">>,
     <<"AwaitingConfirmation", "Executing">>, <<"AwaitingConfirmation", "Cancelled">>,
     <<"Executing", "Executed">>,
     <<"Blocked", "Reported">>, <<"Skipped", "Reported">>,
     <<"Cancelled", "Reported">>, <<"Executed", "Reported">>}

InRequest ==
    pc \in {"RequestReceived", "Planned", "Checked", "Blocked", "Skipped",
            "AwaitingConfirmation", "Executing", "Cancelled", "Executed"}

\* the one command string of a request, wherever a stage has received it
SameCommandThroughout ==
    /\ pc \in {"Checked", "Blocked", "Skipped", "AwaitingConfirmation", "Executing",
               "Cancelled", "Executed", "Reported"}
          => command = planned_command
    /\ (pc = "AwaitingConfirmation" \/ prompts > 0) => shown_command = planned_command
    /\ executed => run_command = planned_command
    /\ (~executed /\ pc # "Executing") => run_command = <<>>
    /\ pc = "Reported" => /\ result.planned_command = planned_command
                          /\ result.original_request = user_input

(* C21: within one process_request the stages follow each other in the     *)
(* order plan, check, (confirm), execute, report, none of them is entered  *)
(* a second time, the request and the planned command do not change on the *)
(* way, and the command checked, the command shown at the confirmation     *)
(* prompt, the command executed and the planned_command of the returned    *)
(* CommandAnalysis are the string plan_command returned, original_request  *)
(* being the user's input.                                                 *)
C21_OneWayPipeline ==
    /\ []SameCommandThroughout
    /\ [][InRequest =>
            /\ pc' # pc => <<pc, pc'>> \in StageOrder
            /\ user_input' = user_input
            /\ pc # "RequestReceived" => planned_command' = planned_command
            /\ pc = "RequestReceived" => planned_command' = plan_command(plan_outcome')
            /\ llm_calls' >= llm_calls /\ llm_calls' <= 1
            /\ executed => executed' /\ run_result' = run_result]_vars

C21_Witness ==
    /\ pc = "Reported"
    /\ interactive
    /\ executed
    /\ prompts = 2
    /\ shown_command = <<"t","o","u","c","h"," ","t","e","s","t",".","t","x","t">>
    /\ run_command = <<"t","o","u","c","h"," ","t","e","s","t",".","t","x","t">>
    /\ result.planned_command = <<"t","o","u","c","h"," ","t","e","s","t",".","t","x","t">>
    /\ result.original_request = <<"C","r","e","a","t","e"," ","a"," ","t","e","s","t",".","t","x","t"," ","f","i","l","e">>

\* the explanation of the pre-filter for the pattern it names
BlockedNaming(pattern) ==
    <<"BLOCKED: Command contains dangerous pattern '">> \o pattern
    \o <<"'. This could modify or delete system files.">>

(* C22: when the pre-filter blocks a command, the explanation names a      *)
(* pattern that occurs in the lower-cased, trimmed command, and of the     *)
(* patterns that occur in it the one that stands first in                  *)
(* DANGEROUS_PATTERNS: for 'rm -rf /important' it names 'rm -rf'.          *)
C22_NamesFirstMatchInListOrder ==
    (JustChecked /\ analysis = NotCalled) =>
        LET text == strip(lower(command))
        IN  \E i \in 1..Len(DANGEROUS_PATTERNS) :
               /\ safety_message = BlockedNaming(DANGEROUS_PATTERNS[i])
               /\ In(DANGEROUS_PATTERNS[i], text)
               /\ \A j \in 1..(i - 1) : ~In(DANGEROUS_PATTERNS[j], text)

C22_Witness ==
    /\ pc = "Checked"
    /\ command = <<"r","m"," ","-","r","f"," ","/","i","m","p","o","r","t","a","n","t">>
    /\ In(<<"r","m"," ","-","r">>, command)
    /\ safety_status = UNSAFE
    /\ safety_message = BlockedNaming(<<"r","m"," ","-","r","f">>)

\* the tags a fence may carry, the untagged fence included
FenceTags == {<<>>, <<"b","a","s","h">>, <<"s","h">>, <<"p","o","w","e","r","s","h","e","l","l">>, <<"c","m","d">>}

(* C23: on a reply, plan_command returns the text with the fence markers   *)
(* removed and trimmed: the command has no blank at either end and holds   *)
(* no triple backtick, a command wrapped in a fence tagged bash, sh,       *)
(* powershell or cmd, or untagged, comes out as the command itself, and    *)
(* the clean-up applied to the result changes nothing.                     *)
C23_FencesRemovedAndTrimmed ==
    (pc = "Planned" /\ plan_outcome.kind = "reply") =>
        /\ strip(planned_command) = planned_command
        /\ ~In(<<Backtick,Backtick,Backtick>>, planned_command)
        /\ (\E tag \in FenceTags :
               plan_outcome.content = <<Backtick,Backtick,Backtick>> \o tag \o <<"\n","l","s"," ","-","l","a","\n">> \o <<Backtick,Backtick,Backtick>>)
              => planned_command = <<"l","s"," ","-","l","a">>
        /\ strip(Remove(Remove(Remove(Remove(Remove(strip(planned_command),
               <<Backtick,Backtick,Backtick,"b","a","s","h">>), <<Backtick,Backtick,Backtick,"s","h">>), <<Backtick,Backtick,Backtick,"p","o","w","e","r","s","h","e","l","l">>), <<Backtick,Backtick,Backtick,"c","m","d">>), <<Backtick,Backtick,Backtick>>))
              = planned_command

C23_Witness ==
    /\ pc = "Planned"
    /\ plan_outcome = Reply(<<Backtick,Backtick,Backtick,"p","o","w","e","r","s","h","e","l","l","\n","l","s"," ","-","l","a","\n",Backtick,Backtick,Backtick>>)
    /\ planned_command = <<"l","s"," ","-","l","a">>

\* the command holds one of the file or directory creation keywords
CreationKeyword(cmd) ==
    \E keyword \in {<<"t","o","u","c","h">>, <<"m","k","d","i","r">>, <<"e","c","h","o"," ",">">>, <<"c","a","t"," ",">">>, <<">"," ">>,
                    <<"n","e","w","-","i","t","e","m">>, <<"n","i"," ">>, <<"e","c","h","o",".",">">>, <<"t","y","p","e"," ","n","u","l"," ",">">>, <<"m","d"," ">>} :
        In(keyword, lower(cmd))

\* the report of a created artifact, with the working directory cwd
CreatedAt(cmd, cwd) ==
    <<"File/directory created successfully!\nLocation: ">>
    \o (IF _extract_filename(cmd) # <<>>
        THEN <<"normpath(join(">> \o cwd \o <<", ">> \o _extract_filename(cmd) \o <<"))">>
        ELSE cwd)

(* C24, as claimed: the reported result of a completed execution differs   *)
(* from the raw result only when the command holds a creation keyword and  *)
(* the raw result is the no-output marker, and then it reports the path of *)
(* the created artifact or, with no filename, the working directory; for   *)
(* every other command or output it is the raw result.                     *)
C24_EnhancedOnlyOnMarker ==
    (pc \in {"Executed", "Reported"} /\ run_result.kind = "completed") =>
        IF CreationKeyword(run_command) /\ final_output = NoOutputMarker
        THEN \E cwd \in WorkingDirectories :
                execution_output = CreatedAt(run_command, cwd)
        ELSE execution_output = final_output

(* C24, amended: the reported result differs from the raw result exactly   *)
(* when the command holds a creation keyword; with the no-output marker it *)
(* reports the path of the created artifact or, with no filename, the      *)
(* working directory, and with any other output it is that output followed *)
(* by the working directory line. For a command without a creation keyword *)
(* it is the raw result.                                                   *)
C24_EnhancedOnlyForCreationCommands ==
    (pc \in {"Executed", "Reported"} /\ run_result.kind = "completed") =>
        IF ~CreationKeyword(run_command)
        THEN execution_output = final_output
        ELSE /\ execution_output # final_output
             /\ \E cwd \in WorkingDirectories :
                    execution_output =
                        IF final_output = NoOutputMarker
                        THEN CreatedAt(run_command, cwd)
                        ELSE final_output \o <<"\n\nWorking Directory: ">> \o cwd

C24_Witness ==
    /\ pc = "Executed"
    /\ run_command = <<"p","s"," ","a","u","x"," ",">"," ","p","r","o","c","s",".","t","x","t">>
    /\ final_output = NoOutputMarker
    /\ execution_output = <<"File/directory created successfully!\nLocation: ">> \o <<"/","w","o","r","k">>

(* C25: end of input at the prompt of interactive_mode does not end the    *)
(* session: the error is reported by the general handler, nothing is       *)
(* planned, checked or executed, and the loop is at its prompt again; the  *)
(* session ends only on an exit word or an interrupt, so while the input   *)
(* stays at its end the loop never terminates.                             *)
C25_EndOfInputPromptsAgain ==
    /\ [][/\ (loop = "prompting" /\ loop_input'.kind = "EOFError")
               => /\ loop' = "prompting"
                  /\ loop_report' = "Error"
                  /\ NothingProcessed'
          /\ (loop # "ended" /\ loop' = "ended")
               => /\ loop_input'.kind # "EOFError"
                  /\ ExitInput(loop_input')]_vars
    /\ []((loop = "prompting" /\ [](loop_input.kind = "EOFError"))
             => [](loop = "prompting"))

C25_Witness ==
    /\ loop = "prompting"
    /\ loop_input.kind = "EOFError"
    /\ loop_report = "Error"
    /\ NothingProcessed

\* a float greater than 0
EstimatePositive(e) ==
    \/ e.kind = "finite" /\ e.tenths > 0
    \/ e.kind = "inf" /\ e.tenths > 0

WellFormedTask(t) ==
    /\ t.name # <<>>
    /\ strptime(t.deadline).kind = "datetime"
    /\ EstimatePositive(t.estimate)

\* the inputs of an add that the claim counts as rejected
RejectedAdd(inp) ==
    \/ strip(inp.name) = <<>>
    \/ strptime(strip(inp.deadline)).kind # "datetime"
    \/ ParseFloat(strip(inp.estimate)).kind = "ValueError"
    \/ ~EstimatePositive(ParseFloat(strip(inp.estimate)))

(* C26, as claimed: after any sequence of menu operations every task of    *)
(* the list has a non-empty name, a deadline that parses as YYYY-MM-DD and *)
(* an estimate greater than 0; a rejected add and an invalid or            *)
(* out-of-range completion choice leave the list unchanged, and a valid    *)
(* completion choice k removes exactly the k-th task and keeps the order   *)
(* of the others.                                                          *)
C26_TaskListWellFormed ==
    /\ [](\A i \in 1..Len(tasks) : WellFormedTask(tasks[i]))
    /\ [][/\ (strip(menu_input'.choice) = <<"1">> /\ RejectedAdd(menu_input'))
               => tasks' = tasks
          /\ (strip(menu_input'.choice) = <<"3">> /\ tasks # <<>>) =>
               LET k == ParseInt(menu_input'.number)
               IN  IF k.kind = "int" /\ k.value \in 1..Len(tasks)
                   THEN /\ Len(tasks') = Len(tasks) - 1
                        /\ \A i \in 1..Len(tasks') :
                              tasks'[i] = IF i < k.value THEN tasks[i] ELSE tasks[i + 1]
                   ELSE tasks' = tasks
          /\ strip(menu_input'.choice) \notin {<<"1">>, <<"3">>} => tasks' = tasks]_vars

\* the time that remains until the deadline of a call, microseconds included:
\* the first is no later than the second
RemainingLeq(a, b) ==
    LET ta == timedelta(strptime(a.deadline), a.current_time)
        tb == timedelta(strptime(b.deadline), b.current_time)
        sa == ta.days * 86400 + ta.seconds
        sb == tb.days * 86400 + tb.seconds
    IN  sa < sb \/ (sa = sb /\ ta.microseconds <= tb.microseconds)

(* C27, as claimed: the urgency score does not increase with the time that *)
(* remains: of two calls, the one with no more time remaining scores at    *)
(* least as much as the other, and every score lies between 10 and 100.    *)
C27_UrgencyDecreasesWithTime ==
    (urgency_call.made /\ urgency_call_before.made) =>
        /\ RemainingLeq(urgency_call_before, urgency_call)
              => RatioLeq(urgency_call.urgency_score, urgency_call_before.urgency_score)
        /\ RatioLeq(Ratio(10, 1), urgency_call.urgency_score)
        /\ RatioLeq(urgency_call.urgency_score, Ratio(100, 1))

(* C28, as claimed: a task whose deadline is the current calendar date     *)
(* scores 95, at every time of that day, and only a task whose deadline is *)
(* before the current date scores 100.                                     *)
C28_DueTodayScores95 ==
    urgency_call.made =>
        LET due   == strptime(urgency_call.deadline).date
            today == urgency_call.current_time.date
        IN  /\ due = today => urgency_call.urgency_score = Ratio(95, 1)
            /\ urgency_call.urgency_score = Ratio(100, 1) => due < today

\* the context entry of the task with the given id
Scored(id) == context.tasks_with_urgency[id]

(* C29: when the collaborator is not available, fails, returns no text or  *)
(* returns text that does not parse, prioritize_tasks raises nothing and   *)
(* returns the fallback prioritization: every task once, ranks 1..n in     *)
(* that order, urgency scores not increasing along the ranks with ties in  *)
(* input order, and do_today exactly for the tasks that can be finished    *)
(* today and score above 50.                                               *)
C29_FallbackOnFailure ==
    (/\ context.made
     /\ \/ use_fallback
        \/ llm_response.kind # "reply"
        \/ _parse_response(llm_response).kind # "tasks") =>
        LET items == prioritized.items
            n     == Len(tasks)
        IN  /\ ~prioritized.raised
            /\ prioritized.source = "fallback"
            /\ Len(items) = n
            /\ \A i \in 1..n : items[i].rank = i
            /\ {items[i].task_id : i \in 1..n} = 1..n
            /\ \A i, j \in 1..n : i < j =>
                  /\ RatioLeq(Scored(items[j].task_id).urgency_score,
                              Scored(items[i].task_id).urgency_score)
                  /\ Scored(items[j].task_id).urgency_score
                        = Scored(items[i].task_id).urgency_score
                       => items[i].task_id < items[j].task_id
            /\ \A i \in 1..n :
                  items[i].do_today <=>
                      /\ Scored(items[i].task_id).can_finish_today
                      /\ Scored(items[i].task_id).urgency_score.num
                            > 50 * Scored(items[i].task_id).urgency_score.den

C29_Witness ==
    /\ llm_response = Reply(<<"[">> \o JsonObjectList \o <<",", "]">>)
    /\ prioritized.source = "fallback"
    /\ Len(prioritized.items) = 2
    /\ Scored(1).urgency_score = Ratio(100, 1)
    /\ Scored(2).urgency_score = Ratio(100, 1)
    /\ prioritized.items[1].task_id = 1
    /\ prioritized.items[1].do_today
    /\ ~prioritized.items[2].do_today

\* the answers that end phase 1
EndsAnalysis(answer) ==
    answer.kind = "line" /\ lower(strip(answer.text)) \in {<<"q","u","i","t">>, <<"e","x","i","t">>, <<"s","k","i","p">>}

(* C30: a session's analysis phase makes at most 10 calls of the analyzer; *)
(* the response agent is invoked, once, only when the analyzer's last      *)
(* reply holds ANALYSIS_COMPLETE and the refined query is not empty; and   *)
(* when the phase ends by the bound, by quit, exit or skip, or with an     *)
(* empty refined query, the response agent is not invoked and the next     *)
(* session's prompt follows.                                               *)
C30_BoundedAnalysisThenResponse ==
    /\ [](/\ analyzer_calls <= 10
          /\ question_count <= analyzer_calls
          /\ generator_calls <= 1
          /\ (qa_pc \in {"phase2", "continue_prompt"} \/ generator_calls > 0) =>
                /\ qa_response.kind = "reply"
                /\ In(<<"A","N","A","L","Y","S","I","S","_","C","O","M","P","L","E","T","E">>, qa_response.content)
                /\ refined_query # <<>>
                /\ analyzer_calls >= 1)
    /\ [][(/\ qa_pc = "analysis_loop"
           /\ qa_pc' # "analysis_loop"
           /\ qa_pc' # "failed"
           /\ \/ analyzer_calls = 10 /\ ~analysis_complete
              \/ EndsAnalysis(user_answer')
              \/ refined_query = <<>>)
             => /\ qa_pc' = "session_prompt"
                /\ generator_calls' = 0]_vars

C30_Witness ==
    /\ qa_pc = "continue_prompt"
    /\ generator_calls = 1
    /\ analyzer_calls = 10
    /\ refined_query = <<"P","u","r","p","o","s","e",":"," ","t","r","i","p">>

====
